---- MODULE Spec2Model ----
(***************************************************************************)
(* Model of the disclaimer bot: the field validators and the generator of *)
(* generator.py, the registry of models.py and the conversation handlers  *)
(* of handlers.py.                                                         *)
(*                                                                         *)
(* Representation.  A Python str is a sequence of one-character strings   *)
(* (dates) or of atoms (city names: a whitespace atom " " or a word).     *)
(* Cyrillic text is transliterated to ASCII.  A Python Optional is a      *)
(* sequence of length <= 1: None is <<>>, a value v is <<v>>.  A Python   *)
(* number is a record [t, v], t one of "int", "float", "nan".  A message  *)
(* or a disclaimer is the sequence of its text segments.                  *)
(***************************************************************************)
EXTENDS Integers, Sequences, FiniteSets, TLC

VARIABLES
    state,      \* FSMContext state of the user's session ("None" when idle)
    data,       \* FSMContext data of the session: a function key -> Optional
    shown,      \* what the last handler showed to the user
    call        \* the last call of a pure function: [fn, args, ret]

vars == <<state, data, shown, call>>

None == <<>>
Some(v) == <<v>>
Val(o) == o[1]

(***************************************************************************)
(* Python numbers                                                          *)
(***************************************************************************)
PyInt(n) == [t |-> "int", v |-> n]
PyFloat(n) == [t |-> "float", v |-> n]
NaN == [t |-> "nan", v |-> 0]

\* a <= 0, a > 0, 0 < a <= 100, a > 100 on Python numbers: every comparison
\* with NaN is False
num_le(a, n) == a.t # "nan" /\ a.v <= n
num_gt(a, n) == a.t # "nan" /\ a.v > n

\* bool(x) of an Optional number: None and zero are falsy, NaN is truthy
truthy_num(o) == o # None /\ (Val(o).t = "nan" \/ Val(o).v # 0)

\* bool(x) of an Optional str: None and "" are falsy
truthy_str(o) == o # None /\ Len(Val(o)) > 0

(***************************************************************************)
(* Characters                                                              *)
(***************************************************************************)

IsDigit(c) == c \in {"0", "1", "2", "3", "4", "5", "6", "7", "8", "9"}

DigitVal(c) ==
    CASE c = "0" -> 0 [] c = "1" -> 1 [] c = "2" -> 2 [] c = "3" -> 3
      [] c = "4" -> 4 [] c = "5" -> 5 [] c = "6" -> 6 [] c = "7" -> 7
      [] c = "8" -> 8 [] c = "9" -> 9

DigitChar(n) ==
    CASE n = 0 -> "0" [] n = 1 -> "1" [] n = 2 -> "2" [] n = 3 -> "3"
      [] n = 4 -> "4" [] n = 5 -> "5" [] n = 6 -> "6" [] n = 7 -> "7"
      [] n = 8 -> "8" [] n = 9 -> "9"

\* int(s) of a string of decimal digits
RECURSIVE int(_)
int(s) == IF Len(s) = 0 THEN 0
          ELSE 10 * int(SubSeq(s, 1, Len(s) - 1)) + DigitVal(s[Len(s)])

\* str(n) of a non-negative int
RECURSIVE str(_)
str(n) == IF n < 10 THEN <<DigitChar(n)>>
          ELSE str(n \div 10) \o <<DigitChar(n % 10)>>

\* f"{n:02d}"
fmt02d(n) == IF n < 10 THEN <<"0">> \o str(n) ELSE str(n)

AllDigits(s) == \A i \in 1..Len(s) : IsDigit(s[i])

(***************************************************************************)
(* Python str and list helpers                                             *)
(***************************************************************************)
Whitespace == {" ", "\n", "\t"}

\* x in list
In(x, list) == \E i \in 1..Len(list) : list[i] = x

\* str.lower() of one word of a city name (the cased words the inputs use)
lower_word(w) ==
    CASE w = "Moskva" -> "moskva"
      [] w = "TULA" -> "tula"
      [] w = "Tver" -> "tver"
      [] w = "Velikiy" -> "velikiy"
      [] w = "Novgorod" -> "novgorod"
      [] w = "Atlantis" -> "atlantis"
      [] OTHER -> w

\* str.lower()
lower(s) == [i \in 1..Len(s) |-> lower_word(s[i])]

\* str.strip()
RECURSIVE lstrip(_)
lstrip(s) == IF Len(s) > 0 /\ s[1] \in Whitespace THEN lstrip(Tail(s)) ELSE s
RECURSIVE rstrip(_)
rstrip(s) == IF Len(s) > 0 /\ s[Len(s)] \in Whitespace
             THEN rstrip(SubSeq(s, 1, Len(s) - 1)) ELSE s
strip(s) == rstrip(lstrip(s))

\* s.split(sep): the list of the parts of s between the separators
RECURSIVE split(_, _)
split(s, sep) ==
    IF \A i \in 1..Len(s) : s[i] # sep THEN <<s>>
    ELSE LET i == CHOOSE k \in 1..Len(s) :
                      s[k] = sep /\ \A j \in 1..(k - 1) : s[j] # sep
         IN  <<SubSeq(s, 1, i - 1)>> \o split(SubSeq(s, i + 1, Len(s)), sep)

(***************************************************************************)
(* models.py: the registry                                                 *)
(***************************************************************************)
TV_RADIO == "tv_radio"
OTHER_CHANNEL == "other"
ChannelType == {TV_RADIO, OTHER_CHANNEL}

DYNAMIC_NEWCOMER == "dynamic_newcomer"
CLASSIC_NEWCOMER == "classic_newcomer"
PROMO_CODE == "promo_code"
CERTIFICATE == "certificate"
IMAGE == "image"
PRODUCT == "product"
VENDOR == "vendor"
CreativeType == {DYNAMIC_NEWCOMER, CLASSIC_NEWCOMER, PROMO_CODE, CERTIFICATE,
                 IMAGE, PRODUCT, VENDOR}

YANDEX_LAVKA ==
    [short |-> "OOO 'Yandeks Lavka', Moskva, OGRN 1187746479250",
     full |-> "OOO 'Yandeks.Lavka', 123112, g. Moskva, pr. 1-y Krasnogvardeyskiy, d. 22, str. 1, et. 12, pom. 12-40, OGRN 1187746479250"]

FRANCHISE_KEYS ==
    <<<<"tula">>,
      <<"tver">>,
      <<"yaroslavl">>,
      <<"ryazan">>,
      <<"kaluga">>,
      <<"velikiy", " ", "novgorod">>,
      <<"obninsk">>,
      <<"lipetsk">>,
      <<"ivanovo">>,
      <<"tambov">>,
      <<"vladimir">>,
      <<"irkutsk">>,
      <<"naberezhnye", " ", "chelny">>,
      <<"nizhnekamsk">>,
      <<"cheboksary">>,
      <<"yoshkar-ola">>>>

FRANCHISE_ENTITIES(key) ==
    CASE key = <<"tula">> ->
        [short |-> "OOO 'Lavka Schastya', Lipetsk, OGRN 1234800004878",
         full |-> "OOO 'Lavka Schastya' (398059, g. Lipetsk, ul. Kommunalnaya, d. 3, pomesch. 1, OGRN 1234800004878)"]
      [] key = <<"tver">> ->
        [short |-> "OOO 'DVM-GRUPP', Tver, OGRN 1246900009850",
         full |-> "OOO 'DVM-GRUPP' (170100, g. Tver, b-r Radischeva, d. 12, etazh 2 pomesch. 15, OGRN 1246900009850)"]
      [] key = <<"yaroslavl">> ->
        [short |-> "OOO 'YaRLAVKA', Yaroslavl, OGRN 1257600001845",
         full |-> "OOO 'YaRLAVKA' (150007, g. Yaroslavl, Skvoznoy pereulok, d. 8A, kv. 3, OGRN 1257600001845)"]
      [] key = <<"ryazan">> ->
        [short |-> "OOO 'Lavka Radosti', Lipetsk, OGRN 1254800002049",
         full |-> "OOO 'Lavka Radosti' (398059, Lipetskaya oblast, g. Lipetsk, ul. Kommunalnaya, d. 3, pomesch. 1, OGRN 1254800002049)"]
      [] key = <<"kaluga">> ->
        [short |-> "OOO 'GOSSTROYRESURS', Kaluga, OGRN 1154028002688",
         full |-> "OOO 'GOSSTROYRESURS' (248001, Kaluzhskaya oblast, g Kaluga, ul Suvorova, d. 17, OGRN 1154028002688)"]
      [] key = <<"velikiy", " ", "novgorod">> ->
        [short |-> "OOO 'Premium Stor', rp Pankovka, OGRN 1157847202996",
         full |-> "OOO 'Premium Stor' (173526, Novgorodskaya oblast, rp Pankovka, ul. Stroitelnaya, d. 7B, ofis 1B, OGRN 1157847202996)"]
      [] key = <<"obninsk">> ->
        [short |-> "OOO 'LAVKAGOU', Sankt-Peterburg, OGRN 1257800045051",
         full |-> "OOO 'LAVKAGOU' (197376, g. Sankt-Peterburg, ul. Planernaya, d. 99 str.1, pomesch. 47N, OGRN 1257800045051)"]
      [] key = <<"lipetsk">> ->
        [short |-> "OOO 'AMR', Lipetskaya oblast, m.o. Lipetskiy, s. Syrskoe, OGRN 1254800003875",
         full |-> "OOO 'AMR' (Lipetskaya obl., M.O. Lipetskiy, s. Syrskoe, ul. Voronezhskaya, str. 35, pomesch. 11, OGRN 1254800003875)"]
      [] key = <<"ivanovo">> ->
        [short |-> "OOO 'IVLAVKA', Ivanovo, OGRN 1253700005591",
         full |-> "OOO 'IVLAVKA' (153000, Ivanovskaya oblast, g. Ivanovo, ul. Palekhskaya, d. 6., OGRN 1253700005591)"]
      [] key = <<"tambov">> ->
        [short |-> "OOO 'Lavka mechty', Lipetsk, OGRN 1254800004700",
         full |-> "OOO 'Lavka mechty' (398001, g. Lipetsk, ul L. Tolstogo, d. 7, pomesch. 2, OGRN 1254800004700)"]
      [] key = <<"vladimir">> ->
        [short |-> "OOO 'DVM-GRUPP', Tver, OGRN 1246900009850",
         full |-> "OOO 'DVM-GRUPP' (170100, g. Tver, b-r Radischeva, d. 12, etazh 2 pomesch. 15, OGRN 1246900009850)"]
      [] key = <<"irkutsk">> ->
        [short |-> "OOO 'PRODSNAB', Irkutsk, OGRN 1213800013250",
         full |-> "OOO 'PRODSNAB' (664035, Irkutskaya obl., g. Irkutsk, ul. Rabochego shtaba, d. 15, pomesch. 6, OGRN 1213800013250)"]
      [] key = <<"naberezhnye", " ", "chelny">> ->
        [short |-> "OOO 'Premium Stor', rp Pankovka, OGRN 1157847202996",
         full |-> "OOO 'Premium Stor' (173526, Novgorodskaya oblast, rp Pankovka, ul. Stroitelnaya, d. 7B, ofis 1B, OGRN 1157847202996)"]
      [] key = <<"nizhnekamsk">> ->
        [short |-> "OOO 'Premium Stor', rp Pankovka, OGRN 1157847202996",
         full |-> "OOO 'Premium Stor' (173526, Novgorodskaya oblast, rp Pankovka, ul. Stroitelnaya, d. 7B, ofis 1B, OGRN 1157847202996)"]
      [] key = <<"cheboksary">> ->
        [short |-> "OOO 'Servisnaya franshiza magazinov i kafe', Moskva, OGRN 1237700294138",
         full |-> "OOO 'Servisnaya franshiza magazinov i kafe' (123007,g. Moskva, proezd 3-y Khoroshevskiy, d. 1 str. 1, pomesch. 3/1, OGRN 1237700294138)"]
      [] key = <<"yoshkar-ola">> ->
        [short |-> "OOO 'Servisnaya franshiza magazinov i kafe', Moskva, OGRN 1237700294138",
         full |-> "OOO 'Servisnaya franshiza magazinov i kafe' (123007,g. Moskva, proezd 3-y Khoroshevskiy, d. 1 str. 1, pomesch. 3/1, OGRN 1237700294138)"]

CORPORATE_CITIES ==
    <<<<"moskva">>,
      <<"mo">>,
      <<"moskovskaya", " ", "oblast">>,
      <<"sankt-peterburg">>,
      <<"spb">>,
      <<"lo">>,
      <<"leningradskaya", " ", "oblast">>,
      <<"kazan">>,
      <<"novosibirsk">>,
      <<"nizhniy", " ", "novgorod">>,
      <<"rostov">>,
      <<"krasnodar">>,
      <<"ekaterinburg">>,
      <<"chelyabinsk">>,
      <<"tyumen">>,
      <<"sochi">>,
      <<"voronezh">>,
      <<"perm">>>>

ALL_CITIES == CORPORATE_CITIES \o FRANCHISE_KEYS

Returned(v) == [raised |-> "", value |-> v]
Raised(exc, msg) == [raised |-> exc, value |-> msg]

city_not_found(city) ==
    <<"Gorod '">> \o city \o <<"' ne nayden v spiske dostupnykh gorodov">>

\* a resolver that takes the short text for TV/radio and the full text otherwise
get_legal_entity_swapped(city, channel) ==
    LET city_lower == strip(lower(city))
    IN  IF ~In(city_lower, CORPORATE_CITIES) /\ ~In(city_lower, FRANCHISE_KEYS)
        THEN Raised("ValueError", city_not_found(city))
        ELSE LET entity == IF In(city_lower, CORPORATE_CITIES)
                           THEN YANDEX_LAVKA
                           ELSE FRANCHISE_ENTITIES(city_lower)
             IN  IF channel = TV_RADIO
                 THEN Returned(entity.short)
                 ELSE Returned(entity.full)

get_legal_entity(city, channel) ==
    LET city_lower == strip(lower(city))
    IN  IF ~In(city_lower, CORPORATE_CITIES) /\ ~In(city_lower, FRANCHISE_KEYS)
        THEN Raised("ValueError", city_not_found(city))
        ELSE LET entity == IF In(city_lower, CORPORATE_CITIES)
                           THEN YANDEX_LAVKA
                           ELSE FRANCHISE_ENTITIES(city_lower)
             IN  IF channel = TV_RADIO
                 THEN Returned(entity.full)
                 ELSE Returned(entity.short)

(***************************************************************************)
(* generator.py: field validators                                          *)
(***************************************************************************)
Ok == [ok |-> TRUE, error |-> <<>>]
Fail(msg) == [ok |-> FALSE, error |-> msg]

\* re.match(r'^(\d{2})\.(\d{2})\.(\d{2}|\d{4})$', s): "$" matches at the end
\* of the string and also just before a newline that ends the string
re_dollar(s, i) == i = Len(s) + 1 \/ (i = Len(s) /\ s[i] = "\n")

date_pattern_match(s) ==
    /\ Len(s) >= 8
    /\ IsDigit(s[1]) /\ IsDigit(s[2]) /\ s[3] = "."
    /\ IsDigit(s[4]) /\ IsDigit(s[5]) /\ s[6] = "."
    /\ IsDigit(s[7]) /\ IsDigit(s[8])
    /\ \/ re_dollar(s, 9)
       \/ /\ Len(s) >= 10
          /\ IsDigit(s[9]) /\ IsDigit(s[10])
          /\ re_dollar(s, 11)

validate_date(date_str) ==
    IF Len(date_str) = 0 THEN Fail(<<"Data ne ukazana">>)
    ELSE IF ~date_pattern_match(date_str)
    THEN Fail(<<"Nevernyy format daty. Ispolzuyte DD.MM.GG ili DD.MM.GGGG (naprimer, 31.12.24 ili 31.12.2024)">>)
    ELSE LET day == int(SubSeq(date_str, 1, 2))
             month == int(SubSeq(date_str, 4, 5))
         IN  IF ~(1 <= month /\ month <= 12)
             THEN Fail(<<"Mesyats dolzhen byt ot 01 do 12">>)
             ELSE IF ~(1 <= day /\ day <= 31)
             THEN Fail(<<"Den dolzhen byt ot 01 do 31">>)
             ELSE IF month \in {4, 6, 9, 11} /\ day > 30
             THEN Fail(<<"V mesyatse ">> \o fmt02d(month)
                       \o <<" ne mozhet byt ">> \o str(day) \o <<" dney">>)
             ELSE IF month = 2 /\ day > 29
             THEN Fail(<<"V fevrale ne mozhet byt bolshe 29 dney">>)
             ELSE Ok

\* a city check that does not trim the name
validate_city_untrimmed(city) ==
    IF Len(city) = 0 THEN Fail(<<"Gorod ne ukazan">>)
    ELSE IF ~In(lower(city), [i \in 1..Len(ALL_CITIES) |-> lower(ALL_CITIES[i])])
    THEN Fail(city_not_found(city))
    ELSE Ok

validate_city(city) ==
    IF Len(city) = 0 THEN Fail(<<"Gorod ne ukazan">>)
    ELSE LET city_lower == strip(lower(city))
         IN  IF ~In(city_lower, [i \in 1..Len(ALL_CITIES) |-> lower(ALL_CITIES[i])])
             THEN Fail(city_not_found(city))
             ELSE Ok

validate_positive_number(value, field_name) ==
    IF value = None THEN Ok
    ELSE IF num_le(Val(value), 0)
    THEN Fail(<<field_name, " dolzhno byt polozhitelnym chislom">>)
    ELSE Ok

\* a percentage check that leaves out 100
validate_percentage_below_100(value) ==
    IF value = None THEN Ok
    ELSE IF ~(num_gt(Val(value), 0) /\ num_le(Val(value), 99))
    THEN Fail(<<"Protsent dolzhen byt ot 0 do 100">>)
    ELSE Ok

validate_percentage(value) ==
    IF value = None THEN Ok
    ELSE IF ~(num_gt(Val(value), 0) /\ num_le(Val(value), 100))
    THEN Fail(<<"Protsent dolzhen byt ot 0 do 100">>)
    ELSE Ok

\* datetime.strptime: the directives %d, %m, %y and %Y as regular expressions
\* (3[0-1]|[1-2]\d|0[1-9]|[1-9]| [1-9]), (1[0-2]|0[1-9]|[1-9]), \d\d, \d\d\d\d
re_d(s) ==
    \/ Len(s) = 2 /\ s[1] = "3" /\ s[2] \in {"0", "1"}
    \/ Len(s) = 2 /\ s[1] \in {"1", "2"} /\ IsDigit(s[2])
    \/ Len(s) = 2 /\ s[1] = "0" /\ IsDigit(s[2]) /\ s[2] # "0"
    \/ Len(s) = 1 /\ IsDigit(s[1]) /\ s[1] # "0"
    \/ Len(s) = 2 /\ s[1] = " " /\ IsDigit(s[2]) /\ s[2] # "0"

re_m(s) ==
    \/ Len(s) = 2 /\ s[1] = "1" /\ s[2] \in {"0", "1", "2"}
    \/ Len(s) = 2 /\ s[1] = "0" /\ IsDigit(s[2]) /\ s[2] # "0"
    \/ Len(s) = 1 /\ IsDigit(s[1]) /\ s[1] # "0"

re_year(s, four) == Len(s) = (IF four THEN 4 ELSE 2) /\ AllDigits(s)

is_leap(year) == year % 4 = 0 /\ (year % 100 # 0 \/ year % 400 = 0)

days_in_month(year, month) ==
    IF month = 2 THEN (IF is_leap(year) THEN 29 ELSE 28)
    ELSE IF month \in {4, 6, 9, 11} THEN 30 ELSE 31

NoDate == [ok |-> FALSE, year |-> 0, month |-> 0, day |-> 0]

\* the digits of a day or a month after the optional leading blank
date_digits(s) == IF s[1] = " " THEN Tail(s) ELSE s

\* datetime.strptime(date_str, "%d.%m.%y") (four = FALSE) and
\* datetime.strptime(date_str, "%d.%m.%Y") (four = TRUE): ok is FALSE where
\* strptime raises ValueError
strptime(date_str, four) ==
    LET n == Len(date_str)
        cuts == { c \in (1..n) \X (1..n) :
                    /\ c[1] < c[2]
                    /\ date_str[c[1]] = "." /\ date_str[c[2]] = "."
                    /\ re_d(SubSeq(date_str, 1, c[1] - 1))
                    /\ re_m(SubSeq(date_str, c[1] + 1, c[2] - 1))
                    /\ re_year(SubSeq(date_str, c[2] + 1, n), four) }
    IN  IF cuts = {} THEN NoDate
        ELSE LET c == CHOOSE x \in cuts : TRUE
                 day == int(date_digits(SubSeq(date_str, 1, c[1] - 1)))
                 month == int(SubSeq(date_str, c[1] + 1, c[2] - 1))
                 yy == int(SubSeq(date_str, c[2] + 1, n))
                 year == IF four THEN yy
                         ELSE IF yy <= 68 THEN 2000 + yy ELSE 1900 + yy
             IN  IF year < 1 \/ day > days_in_month(year, month) THEN NoDate
                 ELSE [ok |-> TRUE, year |-> year, month |-> month, day |-> day]

parse_flexible_date(date_str) ==
    LET parts == split(date_str, ".")
    IN  IF Len(parts) # 3 THEN NoDate
        ELSE IF Len(parts[3]) = 2 THEN strptime(date_str, FALSE)
        ELSE IF Len(parts[3]) = 4 THEN strptime(date_str, TRUE)
        ELSE NoDate

\* a comparison that lets equal dates pass (start > end)
datetime_gt(a, b) ==
    \/ a.year > b.year
    \/ a.year = b.year /\ a.month > b.month
    \/ a.year = b.year /\ a.month = b.month /\ a.day > b.day

\* datetime comparison start >= end
datetime_ge(a, b) ==
    \/ a.year > b.year
    \/ a.year = b.year /\ a.month > b.month
    \/ a.year = b.year /\ a.month = b.month /\ a.day >= b.day

validate_dates_order(start_date, end_date) ==
    LET start == parse_flexible_date(start_date)
        end == parse_flexible_date(end_date)
    IN  IF ~start.ok \/ ~end.ok THEN Fail(<<"Oshibka pri sravnenii dat">>)
        ELSE IF datetime_ge(start, end)
        THEN Fail(<<"Data nachala dolzhna byt ranshe daty okonchaniya">>)
        ELSE Ok

\* models.py: CreativeParams(creative_type, city, channel) with the defaults
\* of the dataclass for every other field
CreativeParams(creative_type, city, channel) ==
    [creative_type |-> creative_type, city |-> city, channel |-> channel,
     end_date |-> None, max_discount_amount |-> None,
     add_delivery_info |-> FALSE, delivery_info_text |-> None,
     discount_size |-> None, discount_unit |-> None,
     first_order_only |-> FALSE, specific_category |-> None,
     min_order_amount |-> None, max_promo_discount |-> None,
     usage_count |-> None, start_date |-> None]

\* the fields of the dataclass and those without a default
CreativeParamsFields ==
    {"creative_type", "city", "channel", "end_date", "max_discount_amount",
     "add_delivery_info", "delivery_info_text", "discount_size",
     "discount_unit", "first_order_only", "specific_category",
     "min_order_amount", "max_promo_discount", "usage_count", "start_date"}

\* a constructor whose city field has the default None
CreativeParams__init__city_optional(kwargs) ==
    IF \E k \in DOMAIN kwargs : k \notin CreativeParamsFields
    THEN Raised("TypeError", <<"got an unexpected keyword argument">>)
    ELSE IF ~({"creative_type", "channel"} \subseteq DOMAIN kwargs)
    THEN Raised("TypeError", <<"missing required positional arguments">>)
    ELSE Returned(kwargs @@ [city |-> None]
                  @@ CreativeParams(kwargs.creative_type, None, kwargs.channel))

\* CreativeParams(**kwargs): the __init__ the dataclass generates takes the
\* fields of the class as keywords, creative_type, city and channel without
\* a default; it raises TypeError for any other keyword and for a missing
\* required one
CreativeParams__init__(kwargs) ==
    IF \E k \in DOMAIN kwargs : k \notin CreativeParamsFields
    THEN Raised("TypeError", <<"got an unexpected keyword argument">>)
    ELSE IF ~({"creative_type", "city", "channel"} \subseteq DOMAIN kwargs)
    THEN Raised("TypeError", <<"missing required positional arguments">>)
    ELSE Returned(kwargs @@ CreativeParams(kwargs.creative_type, kwargs.city,
                                           kwargs.channel))

(***************************************************************************)
(* generator.py: the gate validate_params                                  *)
(***************************************************************************)
PERCENT == <<"%">>
RUB == <<"RUB">>

end_date_required == <<"Data okonchaniya obyazatelna">>

_validate_dynamic_newcomer(params) ==
    IF ~truthy_str(params.end_date) THEN Fail(end_date_required)
    ELSE validate_date(Val(params.end_date))

_validate_classic_newcomer(params) ==
    IF ~truthy_str(params.end_date) THEN Fail(end_date_required)
    ELSE IF ~validate_date(Val(params.end_date)).ok
    THEN validate_date(Val(params.end_date))
    ELSE IF ~truthy_num(params.max_discount_amount)
    THEN Fail(<<"Maksimalnyy razmer skidki obyazatelen">>)
    ELSE validate_positive_number(params.max_discount_amount,
                                  "Maksimalnyy razmer skidki")

_validate_promo_code(params) ==
    IF ~truthy_str(params.end_date) THEN Fail(end_date_required)
    ELSE IF ~validate_date(Val(params.end_date)).ok
    THEN validate_date(Val(params.end_date))
    ELSE IF ~truthy_num(params.discount_size)
    THEN Fail(<<"Razmer skidki obyazatelen">>)
    ELSE IF ~truthy_str(params.discount_unit)
            \/ ~In(Val(params.discount_unit), <<PERCENT, RUB>>)
    THEN Fail(<<"Edinitsa izmereniya skidki dolzhna byt % ili RUB">>)
    ELSE IF Val(params.discount_unit) = PERCENT
            /\ ~validate_percentage(params.discount_size).ok
    THEN validate_percentage(params.discount_size)
    ELSE IF Val(params.discount_unit) # PERCENT
            /\ ~validate_positive_number(params.discount_size, "Razmer skidki").ok
    THEN validate_positive_number(params.discount_size, "Razmer skidki")
    ELSE IF ~validate_positive_number(params.min_order_amount,
                                      "Minimalnaya summa zakaza").ok
    THEN validate_positive_number(params.min_order_amount,
                                  "Minimalnaya summa zakaza")
    ELSE IF ~validate_positive_number(params.max_promo_discount,
                                      "Maksimalnaya skidka").ok
    THEN validate_positive_number(params.max_promo_discount,
                                  "Maksimalnaya skidka")
    ELSE Ok

_validate_certificate(params) ==
    IF ~truthy_str(params.end_date) THEN Fail(end_date_required)
    ELSE IF ~validate_date(Val(params.end_date)).ok
    THEN validate_date(Val(params.end_date))
    ELSE IF ~truthy_num(params.usage_count)
    THEN Fail(<<"Kolichestvo primeneniy obyazatelno">>)
    ELSE IF num_le(Val(params.usage_count), 0) \/ Val(params.usage_count).t # "int"
    THEN Fail(<<"Kolichestvo primeneniy dolzhno byt tselym polozhitelnym chislom">>)
    ELSE Ok

\* a Vendor gate that checks the start date completely before the end date
_validate_vendor_start_first(params) ==
    IF ~truthy_str(params.start_date) THEN Fail(<<"Data nachala obyazatelna">>)
    ELSE IF ~validate_date(Val(params.start_date)).ok
    THEN Fail(<<"Data nachala: ">> \o validate_date(Val(params.start_date)).error)
    ELSE IF ~truthy_str(params.end_date) THEN Fail(end_date_required)
    ELSE IF ~validate_date(Val(params.end_date)).ok
    THEN Fail(<<"Data okonchaniya: ">> \o validate_date(Val(params.end_date)).error)
    ELSE validate_dates_order(Val(params.start_date), Val(params.end_date))

_validate_vendor(params) ==
    IF ~truthy_str(params.start_date) THEN Fail(<<"Data nachala obyazatelna">>)
    ELSE IF ~truthy_str(params.end_date) THEN Fail(end_date_required)
    ELSE IF ~validate_date(Val(params.start_date)).ok
    THEN Fail(<<"Data nachala: ">> \o validate_date(Val(params.start_date)).error)
    ELSE IF ~validate_date(Val(params.end_date)).ok
    THEN Fail(<<"Data okonchaniya: ">> \o validate_date(Val(params.end_date)).error)
    ELSE validate_dates_order(Val(params.start_date), Val(params.end_date))

\* a gate that checks the rules of the type before the city
validate_params_type_first(params) ==
    LET rules == IF params.creative_type = DYNAMIC_NEWCOMER
                 THEN _validate_dynamic_newcomer(params)
                 ELSE IF params.creative_type = CLASSIC_NEWCOMER
                 THEN _validate_classic_newcomer(params)
                 ELSE IF params.creative_type = PROMO_CODE
                 THEN _validate_promo_code(params)
                 ELSE IF params.creative_type = CERTIFICATE
                 THEN _validate_certificate(params)
                 ELSE IF params.creative_type = VENDOR
                 THEN _validate_vendor(params)
                 ELSE Ok
    IN  IF ~rules.ok THEN rules ELSE validate_city(params.city)

validate_params(params) ==
    IF ~validate_city(params.city).ok THEN validate_city(params.city)
    ELSE IF params.creative_type = DYNAMIC_NEWCOMER
    THEN _validate_dynamic_newcomer(params)
    ELSE IF params.creative_type = CLASSIC_NEWCOMER
    THEN _validate_classic_newcomer(params)
    ELSE IF params.creative_type = PROMO_CODE
    THEN _validate_promo_code(params)
    ELSE IF params.creative_type = CERTIFICATE
    THEN _validate_certificate(params)
    ELSE IF params.creative_type = VENDOR
    THEN _validate_vendor(params)
    ELSE Ok

(***************************************************************************)
(* generator.py: the templates                                             *)
(***************************************************************************)
LINK_MO == "clck.ru/397gmg"
LINK_CITIES == "clck.ru/3Dq8fF"
EXCLUDED_CATEGORIES == "'Sertifikaty', 'Magazin Yandeksa' i 'Magaziny po puti'"
PROMO_EXCLUDED == "'Magazin Yandeksa', 'Tovary dlya vzroslykh', 'Sertifikaty', 'Molochnye smesi', tovary s dostavkoy 'Po puti', 'Apteki'"
NO_COMBINATION == "Ne summiruetsya s drugimi aktsiyami."
CERTIFICATE_RULE == "Esli nominal sertifikata pokryvaet polnostyu stoimost zakaza, to summa kazhdoy edinitsy tovara, oplachivaemykh polzovatelem, s uchetom skidki budet ravna 1 (odnomu) rublyu."
CERTIFICATE_LINK == "https://yandex.ru/legal/promocode_eda/"
LIMITED_QUANTITY == "Kolichestvo tovarov ogranicheno."
DELIVERY_NOT_INCLUDED == "Ne primenyaetsya na stoimost dostavki i upakovki."
DEFAULT_DELIVERY_INFO == "Tri besplatnye dostavki v peshey i odna v avto zone. Dostavku osuschestvlyayut partnery Yandeks Edy."

\* f"{x}" of a Python number
format_num(x) ==
    IF x.t = "nan" THEN <<"nan">>
    ELSE LET digits == IF x.v < 0 THEN <<"-">> \o str(-x.v) ELSE str(x.v)
         IN  IF x.t = "float" THEN digits \o <<".", "0">> ELSE digits

\* f"{x}" of an Optional str and of an Optional number
format_str(o) == IF o = None THEN <<"None">> ELSE Val(o)
format_opt_num(o) == IF o = None THEN <<"None">> ELSE format_num(Val(o))

\* sep.join(list) of a list of texts
RECURSIVE join(_, _)
join(list, sep) ==
    IF Len(list) = 0 THEN <<>>
    ELSE IF Len(list) = 1 THEN list[1]
    ELSE list[1] \o <<sep>> \o join(Tail(list), sep)

\* a template that takes the link of the cities for the short channel
_generate_dynamic_newcomer_link_by_channel(params, legal_entity) ==
    <<"Aktsiya deystvuet do ">> \o format_str(params.end_date) \o <<". ">>
    \o <<"Ne rasprostranyaetsya na kategorii ", EXCLUDED_CATEGORIES, ". ">>
    \o <<"Podrobnosti - ",
         IF params.channel = TV_RADIO THEN LINK_MO ELSE LINK_CITIES, ". ">>
    \o <<legal_entity, ".">>

_generate_dynamic_newcomer(params, legal_entity) ==
    <<"Aktsiya deystvuet do ">> \o format_str(params.end_date) \o <<". ">>
    \o <<"Ne rasprostranyaetsya na kategorii ", EXCLUDED_CATEGORIES, ". ">>
    \o <<"Podrobnosti - ", LINK_MO, ". ">>
    \o <<legal_entity, ".">>

\* a template that appends a supplied delivery text whatever the flag says
_generate_classic_newcomer_text_always(params, legal_entity) ==
    <<"Aktsiya deystvuet do ">> \o format_str(params.end_date) \o <<" ">>
    \o <<"(maksimalnyy razmer skidki - ">>
    \o format_opt_num(params.max_discount_amount) \o <<" rub.). ">>
    \o <<"Ne rasprostranyaetsya na kategorii ", EXCLUDED_CATEGORIES, ". ">>
    \o <<"Podrobnosti - ", LINK_CITIES, ". ">>
    \o (IF truthy_str(params.delivery_info_text)
        THEN Val(params.delivery_info_text)
        ELSE IF params.add_delivery_info THEN <<DEFAULT_DELIVERY_INFO>>
        ELSE <<>>)
    \o <<legal_entity>>

_generate_classic_newcomer(params, legal_entity) ==
    <<"Aktsiya deystvuet do ">> \o format_str(params.end_date) \o <<" ">>
    \o <<"(maksimalnyy razmer skidki - ">>
    \o format_opt_num(params.max_discount_amount) \o <<" rub.). ">>
    \o <<"Ne rasprostranyaetsya na kategorii ", EXCLUDED_CATEGORIES, ". ">>
    \o <<"Podrobnosti - ", LINK_CITIES, ". ">>
    \o (IF params.add_delivery_info
        THEN (IF truthy_str(params.delivery_info_text)
              THEN Val(params.delivery_info_text)
              ELSE <<DEFAULT_DELIVERY_INFO>>)
        ELSE <<>>)
    \o <<legal_entity>>

\* conditions that test the category with "if" where the code has "elif"
promo_conditions_both(params) ==
    (IF params.first_order_only THEN <<(<<"na pervyy zakaz">>)>> ELSE <<>>)
    \o (IF truthy_str(params.specific_category)
        THEN <<(<<"na zakaz iz kategoriy \"">> \o Val(params.specific_category)
                \o <<"\"">>)>>
        ELSE <<>>)
    \o (IF truthy_num(params.min_order_amount)
        THEN <<(<<"ot ">> \o format_opt_num(params.min_order_amount)
                \o <<" RUB">>)>>
        ELSE <<>>)
    \o (IF truthy_num(params.max_promo_discount) /\ params.discount_unit # Some(RUB)
        THEN <<(<<"ne bolee ">> \o format_opt_num(params.max_promo_discount)
                \o <<" RUB">>)>>
        ELSE <<>>)

\* conditions that add the maximum whatever the unit is
promo_conditions_any_unit(params) ==
    (IF params.first_order_only THEN <<(<<"na pervyy zakaz">>)>>
     ELSE IF truthy_str(params.specific_category)
     THEN <<(<<"na zakaz iz kategoriy \"">> \o Val(params.specific_category)
             \o <<"\"">>)>>
     ELSE <<>>)
    \o (IF truthy_num(params.min_order_amount)
        THEN <<(<<"ot ">> \o format_opt_num(params.min_order_amount)
                \o <<" RUB">>)>>
        ELSE <<>>)
    \o (IF truthy_num(params.max_promo_discount)
        THEN <<(<<"ne bolee ">> \o format_opt_num(params.max_promo_discount)
                \o <<" RUB">>)>>
        ELSE <<>>)

promo_conditions(params) ==
    (IF params.first_order_only THEN <<(<<"na pervyy zakaz">>)>>
     ELSE IF truthy_str(params.specific_category)
     THEN <<(<<"na zakaz iz kategoriy \"">> \o Val(params.specific_category)
             \o <<"\"">>)>>
     ELSE <<>>)
    \o (IF truthy_num(params.min_order_amount)
        THEN <<(<<"ot ">> \o format_opt_num(params.min_order_amount)
                \o <<" RUB">>)>>
        ELSE <<>>)
    \o (IF truthy_num(params.max_promo_discount) /\ params.discount_unit # Some(RUB)
        THEN <<(<<"ne bolee ">> \o format_opt_num(params.max_promo_discount)
                \o <<" RUB">>)>>
        ELSE <<>>)

_generate_promo_code(params, legal_entity) ==
    LET conditions_text == join(promo_conditions(params), " ")
        discount_text ==
            <<"skidka ">> \o format_opt_num(params.discount_size)
            \o format_str(params.discount_unit)
            \o (IF Len(conditions_text) > 0 THEN <<" ">> \o conditions_text
                ELSE <<>>)
    IN  <<"Do ">> \o format_str(params.end_date) \o <<" ">> \o discount_text
        \o <<". ">>
        \o <<"Ne primenyaetsya k tovaram iz razdelov ", PROMO_EXCLUDED, ". ">>
        \o <<NO_COMBINATION, " ">>
        \o <<legal_entity>>

_generate_certificate(params, legal_entity) ==
    <<"Sertifikat deystvuet do ">> \o format_str(params.end_date) \o <<". ">>
    \o <<"Kolichestvo primeneniy sertifikata - ne bolee ">>
    \o format_opt_num(params.usage_count) \o <<" raz ">>
    \o <<"v predelakh nominala sertifikata. ">>
    \o <<CERTIFICATE_RULE, " ">>
    \o <<"Podrobnye usloviya primeneniya - ", CERTIFICATE_LINK, ". ">>
    \o <<DELIVERY_NOT_INCLUDED, " ">>
    \o <<legal_entity>>

_generate_image(legal_entity) == <<legal_entity>>

_generate_product(legal_entity) == <<LIMITED_QUANTITY, " ", legal_entity>>

_generate_vendor(params, legal_entity) ==
    <<"Aktsiya deystvuet s ">> \o format_str(params.start_date)
    \o <<" po ">> \o format_str(params.end_date) \o <<". ">>
    \o <<LIMITED_QUANTITY, " ">>
    \o <<legal_entity>>

\* generate(params): the disclaimer, or the exception it raises
generate(params) ==
    IF ~validate_params(params).ok
    THEN Raised("ValidationError", validate_params(params).error)
    ELSE IF get_legal_entity(params.city, params.channel).raised # ""
    THEN get_legal_entity(params.city, params.channel)
    ELSE LET legal_entity == get_legal_entity(params.city, params.channel).value
         IN  IF params.creative_type = DYNAMIC_NEWCOMER
             THEN Returned(_generate_dynamic_newcomer(params, legal_entity))
             ELSE IF params.creative_type = CLASSIC_NEWCOMER
             THEN Returned(_generate_classic_newcomer(params, legal_entity))
             ELSE IF params.creative_type = PROMO_CODE
             THEN Returned(_generate_promo_code(params, legal_entity))
             ELSE IF params.creative_type = CERTIFICATE
             THEN Returned(_generate_certificate(params, legal_entity))
             ELSE IF params.creative_type = IMAGE
             THEN Returned(_generate_image(legal_entity))
             ELSE IF params.creative_type = PRODUCT
             THEN Returned(_generate_product(legal_entity))
             ELSE IF params.creative_type = VENDOR
             THEN Returned(_generate_vendor(params, legal_entity))
             ELSE Raised("ValidationError", <<"Neizvestnyy tip kreativa: ",
                                              params.creative_type>>)

(***************************************************************************)
(* Inputs of the pure functions                                            *)
(***************************************************************************)
DateStrings ==
    LET DayParts == {<<"0", "1">>, <<"2", "9">>, <<"3", "0">>, <<"3", "1">>,
                     <<"0", "0">>, <<"3", "2">>, <<"1">>, <<"a", "1">>}
        MonthParts == {<<"0", "1">>, <<"0", "2">>, <<"0", "4">>, <<"1", "1">>,
                       <<"1", "2">>, <<"0", "0">>, <<"1", "3">>, <<"2">>}
        YearParts == {<<"2", "4">>, <<"2", "3">>, <<"6", "9">>,
                      <<"2", "0", "2", "4">>, <<"0", "0", "0", "0">>,
                      <<"2", "0", "2">>, <<"2", "4", "a", "b">>,
                      <<"2", "0", "2", "4", "5">>, <<>>}
        Separators == {".", "-"}
        Suffixes == {<<>>, <<"\n">>, <<" ">>, <<"\n", "\n">>, <<"x">>}
    IN  {<<>>, <<" ">>, <<"a", "b", "c">>} \cup
        { d \o <<s1>> \o m \o <<s2>> \o y \o x :
            d \in DayParts, s1 \in Separators, m \in MonthParts,
            s2 \in Separators, y \in YearParts, x \in Suffixes }

\* the dates compared by validate_dates_order
OrderDates ==
    LET OrderDays == {<<"0", "1">>, <<"2", "9">>, <<"1">>, <<" ", "1">>, <<"0", "0">>}
        OrderMonths == {<<"0", "1">>, <<"0", "2">>, <<"2">>}
        OrderYears == {<<"2", "4">>, <<"2", "5">>, <<"6", "8">>, <<"6", "9">>,
                       <<"2", "0", "2", "4">>, <<"0", "0", "0", "0">>,
                       <<"2", "0", "2">>}
    IN  {<<>>, <<"0", "1", ".", "0", "1">>,
         <<"0", "1", "-", "0", "1", "-", "2", "4">>,
         <<"0", "1", ".", "0", "1", ".", "2", "4", ".", "2", "5">>,
         <<"0", "1", ".", "0", "1", ".", "2", "4", "\n">>} \cup
        { d \o <<".">> \o m \o <<".">> \o y :
            d \in OrderDays, m \in OrderMonths, y \in OrderYears }

\* city names: every key of the registry, cased and padded spellings of
\* some, and names the registry does not hold
Elems(list) == {list[i] : i \in 1..Len(list)}
CityStrings ==
    LET CityCores ==
            Elems(ALL_CITIES) \cup
            {<<"Moskva">>, <<"TULA">>, <<"Tver">>, <<"Velikiy", " ", "Novgorod">>,
             <<"atlantis">>, <<"Atlantis">>, <<"velikiy">>, <<"novgorod">>,
             <<"moskva", " ", "tula">>, <<"velikiy", " ", " ", "novgorod">>, <<>>}
        Paddings == {<<>>, <<" ">>, <<"\n">>}
    IN  { p \o c \o q : p \in Paddings, c \in CityCores, q \in Paddings }

NumberValues ==
    {None, Some(NaN)} \cup
    { Some(PyInt(n)) : n \in {-5, -1, 0, 1, 20, 99, 100, 101, 150} } \cup
    { Some(PyFloat(n)) : n \in {-5, 0, 1, 20, 100, 101, 150} }

\* parameter sets: for each creative type the fields its gate and template
\* read range over present, absent, valid and invalid values; the other
\* fields are all at their defaults or all set (to values no gate accepts)
D_31_12_24 == <<"3", "1", ".", "1", "2", ".", "2", "4">>
D_31_12_2024 == <<"3", "1", ".", "1", "2", ".", "2", "0", "2", "4">>
D_32_12_24 == <<"3", "2", ".", "1", "2", ".", "2", "4">>
D_01_01_24 == <<"0", "1", ".", "0", "1", ".", "2", "4">>
D_29_02_23 == <<"2", "9", ".", "0", "2", ".", "2", "3">>
D_01_03_23 == <<"0", "1", ".", "0", "3", ".", "2", "3">>
D_text == <<"z", "a", "v", "t", "r", "a">>

ParamCities == {<<"moskva">>, <<" ", "TULA", " ">>, <<"tver">>, <<"atlantis">>,
                <<" ">>, <<>>}
EndDates == {None, Some(<<>>), Some(D_31_12_24), Some(D_31_12_2024),
             Some(D_32_12_24), Some(D_01_03_23), Some(D_01_01_24)}
StartDates == {None, Some(<<>>), Some(D_01_01_24), Some(D_29_02_23),
               Some(D_31_12_24), Some(D_text)}
Amounts == {None, Some(PyInt(0)), Some(PyInt(500)), Some(PyInt(-5)), Some(NaN)}
OptAmounts == {None, Some(PyInt(1000)), Some(PyInt(-1))}
Sizes == {None, Some(PyInt(0)), Some(PyInt(20)), Some(PyFloat(20)),
          Some(PyInt(100)), Some(PyInt(150)), Some(PyInt(-5)), Some(NaN)}
Units == {None, Some(<<>>), Some(PERCENT), Some(RUB), Some(<<"x">>)}
UsageCounts == {None, Some(PyInt(0)), Some(PyInt(3)), Some(PyInt(-1)),
                Some(PyFloat(3)), Some(NaN)}

\* keyword arguments of a construction: every subset of these
Keywords ==
    [creative_type |-> PROMO_CODE, city |-> <<"moskva">>,
     cities |-> <<(<<"moskva">>), (<<"tula">>)>>, channel |-> OTHER_CHANNEL,
     end_date |-> Some(D_31_12_24), usage_count |-> Some(PyInt(3))]

\* every optional field set, to a value its validator rejects
AllSet(creative_type, city, channel) ==
    [creative_type |-> creative_type, city |-> city, channel |-> channel,
     end_date |-> Some(D_32_12_24), max_discount_amount |-> Some(PyInt(-5)),
     add_delivery_info |-> TRUE, delivery_info_text |-> Some(<<"Besplatno">>),
     discount_size |-> Some(PyInt(150)), discount_unit |-> Some(<<"x">>),
     first_order_only |-> TRUE, specific_category |-> Some(<<"Frukty">>),
     min_order_amount |-> Some(PyInt(-1)), max_promo_discount |-> Some(PyInt(-1)),
     usage_count |-> Some(PyInt(0)), start_date |-> Some(D_text)]

Base(filled, creative_type, city, channel) ==
    IF filled THEN AllSet(creative_type, city, channel)
    ELSE CreativeParams(creative_type, city, channel)

(***************************************************************************)
(* Calls of the pure functions: the initial state holds a pending call,    *)
(* the action of the function applies it.                                  *)
(***************************************************************************)
Pending(fn, args) == [fn |-> fn, args |-> args, done |-> FALSE, ret |-> Ok]
Return(c, r) == [c EXCEPT !.done = TRUE, !.ret = r]
Called(fn) == call.fn = fn /\ call.done

NoCall == Pending("none", <<>>)

IdleSession ==
    /\ state = "None"
    /\ data = <<>>
    /\ shown = <<>>

InitValidators ==
    /\ IdleSession
    /\ \/ \E s \in DateStrings : call = Pending("validate_date", <<s>>)
       \/ \E v \in NumberValues, f \in {"Razmer skidki", "Minimalnaya summa zakaza"} :
            call = Pending("validate_positive_number", <<v, f>>)
       \/ \E v \in NumberValues : call = Pending("validate_percentage", <<v>>)
       \/ \E a \in OrderDates, b \in OrderDates :
            call = Pending("validate_dates_order", <<a, b>>)

InitGenerator ==
    /\ IdleSession
    /\ \/ \E c \in CityStrings : call = Pending("validate_city", <<c>>)
       \/ \E names \in SUBSET DOMAIN Keywords :
            call = Pending("CreativeParams",
                           <<[k \in names |-> Keywords[k]]>>)
       \/ \E c \in CityStrings, ch \in ChannelType :
            call = Pending("get_legal_entity", <<c, ch>>)
       \/ \E fn \in {"validate_params", "generate"}, c \in ParamCities,
             ch \in ChannelType, filled \in BOOLEAN :
            \/ \E e \in EndDates :
                call = Pending(fn, <<[end_date |-> e]
                                     @@ Base(filled, DYNAMIC_NEWCOMER, c, ch)>>)
            \/ \E e \in EndDates, m \in Amounts, d \in BOOLEAN,
                  t \in {None, Some(<<>>),
                        Some(<<"Besplatnaya", " ", "dostavka.", " ">>)} :
                call = Pending(fn, <<[end_date |-> e, max_discount_amount |-> m,
                                      add_delivery_info |-> d,
                                      delivery_info_text |-> t]
                                     @@ Base(filled, CLASSIC_NEWCOMER, c, ch)>>)
            \/ \E e \in EndDates, u \in UsageCounts :
                call = Pending(fn, <<[end_date |-> e, usage_count |-> u]
                                     @@ Base(filled, CERTIFICATE, c, ch)>>)
            \/ \E b \in StartDates, e \in EndDates :
                call = Pending(fn, <<[start_date |-> b, end_date |-> e]
                                     @@ Base(filled, VENDOR, c, ch)>>)
            \/ \E t \in {IMAGE, PRODUCT} :
                call = Pending(fn, <<Base(filled, t, c, ch)>>)
       \/ \E fn \in {"validate_params", "generate"},
             c \in {<<" ", "TULA", " ">>, <<"atlantis">>}, ch \in ChannelType,
             e \in {None, Some(D_31_12_24), Some(D_32_12_24)},
             s \in Sizes, u \in Units, f \in BOOLEAN,
             g \in {None, Some(<<>>), Some(<<"Frukty">>)}, m \in OptAmounts,
             x \in OptAmounts :
            call = Pending(fn, <<[end_date |-> e, discount_size |-> s,
                                  discount_unit |-> u, first_order_only |-> f,
                                  specific_category |-> g,
                                  min_order_amount |-> m,
                                  max_promo_discount |-> x]
                                 @@ CreativeParams(PROMO_CODE, c, ch)>>)

apply_validate_date ==
    /\ call.fn = "validate_date" /\ ~call.done
    /\ call' = Return(call, validate_date(call.args[1]))
    /\ UNCHANGED <<state, data, shown>>

apply_validate_city ==
    /\ call.fn = "validate_city" /\ ~call.done
    /\ call' = Return(call, validate_city(call.args[1]))
    /\ UNCHANGED <<state, data, shown>>

apply_validate_positive_number ==
    /\ call.fn = "validate_positive_number" /\ ~call.done
    /\ call' = Return(call, validate_positive_number(call.args[1], call.args[2]))
    /\ UNCHANGED <<state, data, shown>>

apply_validate_percentage ==
    /\ call.fn = "validate_percentage" /\ ~call.done
    /\ call' = Return(call, validate_percentage(call.args[1]))
    /\ UNCHANGED <<state, data, shown>>

apply_validate_dates_order ==
    /\ call.fn = "validate_dates_order" /\ ~call.done
    /\ call' = Return(call, validate_dates_order(call.args[1], call.args[2]))
    /\ UNCHANGED <<state, data, shown>>

apply_get_legal_entity ==
    /\ call.fn = "get_legal_entity" /\ ~call.done
    /\ call' = Return(call, get_legal_entity(call.args[1], call.args[2]))
    /\ UNCHANGED <<state, data, shown>>

apply_validate_params ==
    /\ call.fn = "validate_params" /\ ~call.done
    /\ call' = Return(call, validate_params(call.args[1]))
    /\ UNCHANGED <<state, data, shown>>

apply_generate ==
    /\ call.fn = "generate" /\ ~call.done
    /\ call' = Return(call, generate(call.args[1]))
    /\ UNCHANGED <<state, data, shown>>

apply_CreativeParams ==
    /\ call.fn = "CreativeParams" /\ ~call.done
    /\ call' = Return(call, CreativeParams__init__(call.args[1]))
    /\ UNCHANGED <<state, data, shown>>

NextValidators ==
    \/ apply_validate_date
    \/ apply_validate_positive_number
    \/ apply_validate_percentage
    \/ apply_validate_dates_order

SpecValidators == InitValidators /\ [][NextValidators]_vars

NextGenerator ==
    \/ apply_validate_city
    \/ apply_get_legal_entity
    \/ apply_validate_params
    \/ apply_generate
    \/ apply_CreativeParams

SpecGenerator == InitGenerator /\ [][NextGenerator]_vars

(***************************************************************************)
(* handlers.py: the session of one user (FSM state and collected data) and *)
(* the batch conversation.  data is the dict of the FSM context: a         *)
(* function from the keys present to their values; shown is the reply of   *)
(* the handler that ran last.                                              *)
(***************************************************************************)
\* data.get(key), data.get(key, default), state.update_data(**upd)
get(d, key) == IF key \in DOMAIN d THEN d[key] ELSE None
get_default(d, key, default) == IF key \in DOMAIN d THEN d[key] ELSE default
update_data(d, upd) == upd @@ d

\* int(text) of a stripped message text: an optional sign and digits; None
\* stands for ValueError
py_int(text) ==
    LET digits == IF Len(text) > 0 /\ text[1] \in {"-", "+"} THEN Tail(text)
                  ELSE text
    IN  IF Len(digits) = 0 \/ ~AllDigits(digits) THEN None
        ELSE IF text[1] = "-" THEN Some(PyInt(-int(digits)))
        ELSE Some(PyInt(int(digits)))

\* text.replace(",", ".")
replace_comma(text) ==
    [i \in 1..Len(text) |-> IF text[i] = "," THEN "." ELSE text[i]]

\* float(text) of the texts the model enters: an optional sign, digits and an
\* optional fraction of zeros, or "nan"; None stands for ValueError
py_float(text) ==
    LET unsigned == IF Len(text) > 0 /\ text[1] \in {"-", "+"} THEN Tail(text)
                    ELSE text
        parts == split(unsigned, ".")
    IN  IF lower(unsigned) = <<"n", "a", "n">> THEN Some(NaN)
        ELSE IF /\ Len(parts) \in {1, 2}
                /\ Len(parts[1]) > 0 /\ AllDigits(parts[1])
                /\ Len(parts) = 2 =>
                     \A i \in 1..Len(parts[2]) : parts[2][i] = "0"
        THEN IF text[1] = "-" THEN Some(PyFloat(-int(parts[1])))
             ELSE Some(PyFloat(int(parts[1])))
        ELSE None

\* the states of the batch conversation (the group MassGeneration)
Idle == "None"
MASS_CHOOSING_TYPE == "MassGeneration:choosing_type"
MASS_CHOOSING_MULTIPLE_CITIES == "MassGeneration:choosing_multiple_cities"
MASS_CHOOSING_CHANNEL == "MassGeneration:choosing_channel"
MASS_ENTERING_START_DATE == "MassGeneration:entering_start_date"
MASS_ENTERING_END_DATE == "MassGeneration:entering_end_date"
MASS_ENTERING_MAX_DISCOUNT == "MassGeneration:entering_max_discount"
MASS_ENTERING_DISCOUNT_SIZE == "MassGeneration:entering_discount_size"
MASS_CHOOSING_DISCOUNT_UNIT == "MassGeneration:choosing_discount_unit"
MASS_ENTERING_USAGE_COUNT == "MassGeneration:entering_usage_count"
MASS_CONFIRMING == "MassGeneration:confirming"

\* the states of the single-city conversation (the group DisclaimerCreation)
DisclaimerCreation ==
    [choosing_type |-> "DisclaimerCreation:choosing_type",
     choosing_geography |-> "DisclaimerCreation:choosing_geography",
     choosing_channel |-> "DisclaimerCreation:choosing_channel",
     entering_end_date |-> "DisclaimerCreation:entering_end_date",
     entering_max_discount |-> "DisclaimerCreation:entering_max_discount",
     choosing_delivery_info |-> "DisclaimerCreation:choosing_delivery_info",
     entering_delivery_text |-> "DisclaimerCreation:entering_delivery_text",
     entering_discount_size |-> "DisclaimerCreation:entering_discount_size",
     choosing_discount_unit |-> "DisclaimerCreation:choosing_discount_unit",
     choosing_first_order |-> "DisclaimerCreation:choosing_first_order",
     choosing_category |-> "DisclaimerCreation:choosing_category",
     entering_category_name |-> "DisclaimerCreation:entering_category_name",
     entering_min_amount |-> "DisclaimerCreation:entering_min_amount",
     entering_max_discount_promo |->
         "DisclaimerCreation:entering_max_discount_promo",
     entering_usage_count |-> "DisclaimerCreation:entering_usage_count",
     entering_start_date |-> "DisclaimerCreation:entering_start_date",
     confirming |-> "DisclaimerCreation:confirming"]


\* the replies of the handlers
Reply(kind, text) == <<[kind |-> kind, text |-> text]>>
MassResult(disclaimers) == <<[kind |-> "mass_result", disclaimers |-> disclaimers]>>
ValidationErrorReply(error) == <<[kind |-> "validation_error", error |-> error]>>
ExceptionReply(error) == <<[kind |-> "exception", error |-> error]>>

\* generate_mass_disclaimers: the CreativeParams built for one city
mass_params(d, city) ==
    [creative_type |-> d["creative_type"], city |-> city,
     channel |-> d["channel"],
     end_date |-> get(d, "end_date"),
     max_discount_amount |-> get(d, "max_discount_amount"),
     add_delivery_info |-> get_default(d, "add_delivery_info", FALSE),
     delivery_info_text |-> get(d, "delivery_info_text"),
     discount_size |-> get(d, "discount_size"),
     discount_unit |-> get(d, "discount_unit"),
     first_order_only |-> get_default(d, "first_order_only", FALSE),
     specific_category |-> get(d, "specific_category"),
     min_order_amount |-> get(d, "min_order_amount"),
     max_promo_discount |-> get(d, "max_promo_discount"),
     usage_count |-> get(d, "usage_count"),
     start_date |-> get(d, "start_date")]

\* generate_mass_disclaimers: the loop over the selected cities builds the
\* list of (city, disclaimer) pairs; the first exception leaves the loop and
\* the list built so far is dropped
RECURSIVE mass_disclaimers(_, _, _)

\* a loop body that skips a city whose generation fails
mass_loop_body_skipping(d, cities, disclaimers, disclaimer) ==
    mass_disclaimers(d, Tail(cities),
        IF disclaimer.raised # "" THEN disclaimers
        ELSE Append(disclaimers, <<Head(cities), disclaimer.value>>))

\* a loop body that puts the new disclaimer in front of the list
mass_loop_body_prepending(d, cities, disclaimers, disclaimer) ==
    IF disclaimer.raised # "" THEN disclaimer
    ELSE mass_disclaimers(d, Tail(cities),
            <<<<Head(cities), disclaimer.value>>>> \o disclaimers)

\* disclaimer = generator.generate(params);
\* disclaimers.append((city, disclaimer))
mass_loop_body(d, cities, disclaimers, disclaimer) ==
    IF disclaimer.raised # "" THEN disclaimer
    ELSE mass_disclaimers(d, Tail(cities),
            Append(disclaimers, <<Head(cities), disclaimer.value>>))

mass_disclaimers(d, cities, disclaimers) ==
    IF Len(cities) = 0 THEN Returned(disclaimers)
    ELSE mass_loop_body(d, cities, disclaimers,
                        generate(mass_params(d, Head(cities))))

\* the reply of generate_mass_disclaimers: the result message lists every
\* pair of the list (in parts when it is longer than one message)
mass_reply(selected_cities, result) ==
    IF Len(selected_cities) = 0
    THEN Reply("edit_text", <<"no cities selected">>)
    ELSE IF result.raised = "" THEN MassResult(result.value)
    ELSE IF result.raised = "ValidationError"
    THEN ValidationErrorReply(result.value)
    ELSE ExceptionReply(result.value)

\* list.remove(x): the list without the first occurrence of x
RECURSIVE remove(_, _)
remove(list, x) ==
    IF Len(list) = 0 THEN list
    ELSE IF Head(list) = x THEN Tail(list)
    ELSE <<Head(list)>> \o remove(Tail(list), x)

\* the inputs of the batch conversation: the tokens of its keyboards, a city
\* token the registry does not hold, and the texts of the messages
MassCityTokens == {<<"moskva">>, <<"tula">>, <<"atlantis">>}
MassUnitTokens == {PERCENT, RUB}
MassConfirmTokens == {"yes", "edit", "restart"}
MassDateTexts ==
    {D_31_12_24, D_01_01_24, D_32_12_24, D_29_02_23,
     <<" ">> \o D_31_12_2024 \o <<" ">>}
MassNumberTexts ==
    {<<"5", "0", "0">>, <<"0">>, <<"-", "5">>, <<"a", "b", "c">>,
     <<"1", "5", "0">>, <<"2", "0">>, <<"n", "a", "n">>,
     <<"1", "2", ",", "0">>, <<" ", "3", " ">>}

\* callback data as <<prefix, rest>>; "unit" is a token of the single-city
\* keyboards
MassCallbacks ==
    ({"mass_type"} \X CreativeType) \cup ({"city_toggle"} \X MassCityTokens)
    \cup {<<"cities", "ready">>} \cup ({"mass_channel"} \X ChannelType)
    \cup ({"mass_unit"} \X MassUnitTokens)
    \cup ({"mass_confirm"} \X MassConfirmTokens)
    \cup ({"unit"} \X MassUnitTokens)

\* the inputs of the single-city conversation: cities of the geography
\* keyboard, the texts of the messages, and the tokens of the keyboards
\* (back:to_channel is a token handlers.py takes and no keyboard builds)
SingleCities == {<<"moskva">>, <<"tula">>}
SingleDateTexts == {D_31_12_24, D_01_01_24, D_32_12_24}
SingleNumberTexts ==
    {<<"2", "0">>, <<"1", "5", "0">>, <<"0">>, <<"a", "b", "c">>}
\* the text of the menu button of the batch conversation
MASS_BUTTON == <<"Massovaya generatsiya">>
SingleTexts == {<<"Frukty">>, MASS_BUTTON}
SingleCallbacks ==
    ({"type"} \X CreativeType) \cup ({"geo"} \X SingleCities)
    \cup ({"channel"} \X ChannelType)
    \cup ({"back"} \X {"to_type", "to_geography", "to_channel"})
    \cup ({"delivery", "first", "category"} \X {"yes", "no"})
    \cup ({"unit"} \X MassUnitTokens)
    \cup ({"confirm"} \X {"yes", "edit", "restart"})
    \cup ({"result"} \X {"new", "menu"})
Callbacks == MassCallbacks \cup SingleCallbacks

\* the state filter and the data filter of the callback handlers
CallbackHandled(st, cb) ==
    \/ st = MASS_CHOOSING_TYPE /\ cb[1] = "mass_type"
    \/ st = MASS_CHOOSING_MULTIPLE_CITIES /\ cb[1] = "city_toggle"
    \/ st = MASS_CHOOSING_MULTIPLE_CITIES /\ cb = <<"cities", "ready">>
    \/ st = MASS_CHOOSING_CHANNEL /\ cb[1] = "mass_channel"
    \/ st = MASS_CHOOSING_DISCOUNT_UNIT /\ cb[1] = "mass_unit"
    \/ st = MASS_CONFIRMING /\ cb[1] = "mass_confirm"
    \/ st = DisclaimerCreation.choosing_type /\ cb[1] = "type"
    \/ st = DisclaimerCreation.choosing_geography /\ cb[1] = "geo"
    \/ st = DisclaimerCreation.choosing_channel /\ cb[1] = "channel"
    \/ cb[1] = "back"
    \/ st = DisclaimerCreation.choosing_delivery_info /\ cb[1] = "delivery"
    \/ st = DisclaimerCreation.choosing_discount_unit /\ cb[1] = "unit"
    \/ st = DisclaimerCreation.choosing_first_order /\ cb[1] = "first"
    \/ st = DisclaimerCreation.choosing_category /\ cb[1] = "category"
    \/ st = DisclaimerCreation.confirming /\ cb[1] = "confirm"
    \/ cb[1] = "result"

\* the states whose messages a handler of the single-city conversation
\* takes: these handlers come before the handler of the batch button
SingleMessageStates ==
    {DisclaimerCreation.entering_start_date,
     DisclaimerCreation.entering_end_date,
     DisclaimerCreation.entering_max_discount,
     DisclaimerCreation.entering_delivery_text,
     DisclaimerCreation.entering_discount_size,
     DisclaimerCreation.entering_category_name,
     DisclaimerCreation.entering_min_amount,
     DisclaimerCreation.entering_max_discount_promo,
     DisclaimerCreation.entering_usage_count}

\* the states whose messages a handler of a conversation takes
MessageStates ==
    {MASS_ENTERING_START_DATE, MASS_ENTERING_END_DATE,
     MASS_ENTERING_MAX_DISCOUNT, MASS_ENTERING_DISCOUNT_SIZE,
     MASS_ENTERING_USAGE_COUNT} \cup SingleMessageStates

cmd_start ==
    /\ state' = Idle
    /\ data' = <<>>
    /\ shown' = Reply("answer", <<"welcome">>)
    /\ UNCHANGED call

\* state.clear(), set_state(choosing_type), update_data(selected_cities=[])
mass_created == update_data(<<>>, [selected_cities |-> <<>>])

cmd_mass_create ==
    /\ state \notin SingleMessageStates
    /\ state' = MASS_CHOOSING_TYPE
    /\ data' = mass_created
    /\ shown' = Reply("answer", <<"mass: choose type">>)
    /\ UNCHANGED call

mass_process_type_selection ==
    /\ state = MASS_CHOOSING_TYPE
    /\ \E creative_type \in CreativeType :
          data' = update_data(data, [creative_type |-> creative_type])
    /\ state' = MASS_CHOOSING_MULTIPLE_CITIES
    /\ shown' = Reply("edit_text", <<"mass: choose cities">>)
    /\ UNCHANGED call

\* toggle_city_selection: the list after the city was toggled
toggled(selected, city) ==
    IF In(city, selected) THEN remove(selected, city)
    ELSE Append(selected, city)

toggle_city_selection_appending ==
    /\ state = MASS_CHOOSING_MULTIPLE_CITIES
    /\ Len(get_default(data, "selected_cities", <<>>)) < 3
    /\ \E city \in MassCityTokens :
          data' = update_data(data,
                    [selected_cities |->
                        Append(get_default(data, "selected_cities", <<>>),
                               city)])
    /\ shown' = Reply("edit_text", <<"mass: choose cities">>)
    /\ UNCHANGED <<state, call>>

toggle_city_selection ==
    /\ state = MASS_CHOOSING_MULTIPLE_CITIES
    /\ \E city \in MassCityTokens :
          LET selected == get_default(data, "selected_cities", <<>>)
          IN  data' = update_data(data,
                        [selected_cities |-> toggled(selected, city)])
    /\ shown' = Reply("edit_text", <<"mass: choose cities">>)
    /\ UNCHANGED <<state, call>>

mass_cities_ready_unchecked ==
    /\ state = MASS_CHOOSING_MULTIPLE_CITIES
    /\ state' = MASS_CHOOSING_CHANNEL
    /\ shown' = Reply("edit_text", <<"mass: choose channel">>)
    /\ UNCHANGED <<data, call>>

mass_cities_ready ==
    /\ state = MASS_CHOOSING_MULTIPLE_CITIES
    /\ IF Len(get_default(data, "selected_cities", <<>>)) = 0
       THEN /\ shown' = Reply("alert", <<"mass: choose at least one city">>)
            /\ UNCHANGED <<state, data>>
       ELSE /\ state' = MASS_CHOOSING_CHANNEL
            /\ shown' = Reply("edit_text", <<"mass: choose channel">>)
            /\ UNCHANGED data
    /\ UNCHANGED call

mass_process_channel_selection ==
    /\ state = MASS_CHOOSING_CHANNEL
    /\ \E channel \in ChannelType :
          data' = update_data(data, [channel |-> channel])
    /\ LET creative_type == data["creative_type"]
       IN  IF creative_type \in {DYNAMIC_NEWCOMER, CLASSIC_NEWCOMER,
                                 PROMO_CODE, CERTIFICATE}
           THEN /\ state' = MASS_ENTERING_END_DATE
                /\ shown' = Reply("answer", <<"mass: enter end date">>)
           ELSE IF creative_type = VENDOR
           THEN /\ state' = MASS_ENTERING_START_DATE
                /\ shown' = Reply("answer", <<"mass: enter start date">>)
           ELSE /\ state' = MASS_CONFIRMING
                /\ shown' = Reply("answer", <<"mass: confirm">>)
    /\ UNCHANGED call

mass_process_start_date ==
    /\ state = MASS_ENTERING_START_DATE
    /\ \E text \in MassDateTexts :
          LET start_date == strip(text)
          IN  IF ~validate_date(start_date).ok
              THEN /\ shown' = Reply("answer", validate_date(start_date).error)
                   /\ UNCHANGED <<state, data>>
              ELSE /\ data' = update_data(data, [start_date |-> Some(start_date)])
                   /\ state' = MASS_ENTERING_END_DATE
                   /\ shown' = Reply("answer", <<"mass: enter end date">>)
    /\ UNCHANGED call

mass_process_end_date ==
    /\ state = MASS_ENTERING_END_DATE
    /\ \E text \in MassDateTexts :
          LET end_date == strip(text)
              creative_type == data["creative_type"]
              order == validate_dates_order(Val(data["start_date"]), end_date)
          IN  IF ~validate_date(end_date).ok
              THEN /\ shown' = Reply("answer", validate_date(end_date).error)
                   /\ UNCHANGED <<state, data>>
              ELSE /\ data' = update_data(data, [end_date |-> Some(end_date)])
                   /\ IF creative_type = VENDOR /\ ~order.ok
                      THEN /\ shown' = Reply("answer", order.error)
                           /\ UNCHANGED state
                      ELSE IF creative_type = CLASSIC_NEWCOMER
                      THEN /\ state' = MASS_ENTERING_MAX_DISCOUNT
                           /\ shown' = Reply("answer", <<"mass: enter max discount">>)
                      ELSE IF creative_type = PROMO_CODE
                      THEN /\ state' = MASS_ENTERING_DISCOUNT_SIZE
                           /\ shown' = Reply("answer", <<"mass: enter discount size">>)
                      ELSE IF creative_type = CERTIFICATE
                      THEN /\ state' = MASS_ENTERING_USAGE_COUNT
                           /\ shown' = Reply("answer", <<"mass: enter usage count">>)
                      ELSE IF creative_type \in {DYNAMIC_NEWCOMER, VENDOR}
                      THEN /\ state' = MASS_CONFIRMING
                           /\ shown' = Reply("answer", <<"mass: confirm">>)
                      ELSE /\ shown' = <<>>
                           /\ UNCHANGED state
    /\ UNCHANGED call

mass_process_max_discount_wrong_state ==
    /\ state = MASS_ENTERING_MAX_DISCOUNT
    /\ \E text \in MassNumberTexts :
          LET max_discount == py_int(strip(text))
          IN  IF max_discount = None \/ num_le(Val(max_discount), 0)
              THEN /\ shown' = Reply("answer", <<"enter a positive integer">>)
                   /\ UNCHANGED <<state, data>>
              ELSE /\ data' = update_data(data,
                                [max_discount_amount |-> max_discount])
                   /\ state' = MASS_CHOOSING_DISCOUNT_UNIT
                   /\ shown' = Reply("answer", <<"mass: confirm">>)
    /\ UNCHANGED call

mass_process_max_discount ==
    /\ state = MASS_ENTERING_MAX_DISCOUNT
    /\ \E text \in MassNumberTexts :
          LET max_discount == py_int(strip(text))
          IN  IF max_discount = None \/ num_le(Val(max_discount), 0)
              THEN /\ shown' = Reply("answer", <<"enter a positive integer">>)
                   /\ UNCHANGED <<state, data>>
              ELSE /\ data' = update_data(data,
                                [max_discount_amount |-> max_discount,
                                 add_delivery_info |-> FALSE])
                   /\ state' = MASS_CONFIRMING
                   /\ shown' = Reply("answer", <<"mass: confirm">>)
    /\ UNCHANGED call

mass_process_discount_size ==
    /\ state = MASS_ENTERING_DISCOUNT_SIZE
    /\ \E text \in MassNumberTexts :
          LET discount_size == py_float(replace_comma(strip(text)))
          IN  IF discount_size = None \/ num_le(Val(discount_size), 0)
              THEN /\ shown' = Reply("answer", <<"enter a positive number">>)
                   /\ UNCHANGED <<state, data>>
              ELSE /\ data' = update_data(data, [discount_size |-> discount_size])
                   /\ state' = MASS_CHOOSING_DISCOUNT_UNIT
                   /\ shown' = Reply("answer", <<"mass: choose unit">>)
    /\ UNCHANGED call

mass_process_discount_unit ==
    /\ state = MASS_CHOOSING_DISCOUNT_UNIT
    /\ \E unit \in MassUnitTokens :
          data' = update_data(data,
                    [discount_unit |-> Some(unit), first_order_only |-> FALSE,
                     specific_category |-> None, min_order_amount |-> None,
                     max_promo_discount |-> None])
    /\ state' = MASS_CONFIRMING
    /\ shown' = Reply("answer", <<"mass: confirm">>)
    /\ UNCHANGED call

mass_process_usage_count ==
    /\ state = MASS_ENTERING_USAGE_COUNT
    /\ \E text \in MassNumberTexts :
          LET usage_count == py_int(strip(text))
          IN  IF usage_count = None \/ num_le(Val(usage_count), 0)
              THEN /\ shown' = Reply("answer", <<"enter a positive integer">>)
                   /\ UNCHANGED <<state, data>>
              ELSE /\ data' = update_data(data, [usage_count |-> usage_count])
                   /\ state' = MASS_CONFIRMING
                   /\ shown' = Reply("answer", <<"mass: confirm">>)
    /\ UNCHANGED call

\* after each outcome the session is cleared
generate_mass_disclaimers ==
    /\ state = MASS_CONFIRMING
    /\ shown' = mass_reply(get_default(data, "selected_cities", <<>>),
                    mass_disclaimers(data,
                        get_default(data, "selected_cities", <<>>), <<>>))
    /\ state' = Idle
    /\ data' = <<>>
    /\ UNCHANGED call

mass_edit_parameters ==
    /\ state = MASS_CONFIRMING
    /\ state' = MASS_CHOOSING_TYPE
    /\ data' = mass_created
    /\ shown' = Reply("answer", <<"start again">>)
                 \o Reply("answer", <<"mass: choose type">>)
    /\ UNCHANGED call

mass_restart_creation ==
    /\ state = MASS_CONFIRMING
    /\ state' = MASS_CHOOSING_TYPE
    /\ data' = mass_created
    /\ shown' = Reply("answer", <<"mass: choose type">>)
    /\ UNCHANGED call

\* a callback no handler above takes: the session is cleared when the data
\* has one of the listed prefixes, and left alone otherwise
\* the session after handle_unhandled_callback took the callback cb in the
\* state st with the data d
unhandled_session(st, d, cb) ==
    IF cb[1] \in {"type", "geo", "channel", "city_toggle", "cities",
                  "mass_type", "mass_channel", "mass_unit", "mass_confirm"}
    THEN [state |-> Idle, data |-> <<>>,
          shown |-> Reply("alert", <<"error: start again">>)]
    ELSE [state |-> st, data |-> d,
          shown |-> Reply("alert", <<"unknown command">>)]

unhandled_callback(cb) ==
    /\ ~CallbackHandled(state, cb)
    /\ state' = unhandled_session(state, data, cb).state
    /\ data' = unhandled_session(state, data, cb).data
    /\ shown' = unhandled_session(state, data, cb).shown
    /\ UNCHANGED call

handle_unhandled_callback == \E cb \in Callbacks : unhandled_callback(cb)

handle_text_clearing ==
    /\ state \notin MessageStates
    /\ shown' = Reply("answer", <<"use /create or /help">>)
    /\ state' = Idle
    /\ data' = <<>>
    /\ UNCHANGED call

\* a message in a state whose messages no handler takes
handle_text ==
    /\ state \notin MessageStates
    /\ shown' = Reply("answer", <<"use /create or /help">>)
    /\ UNCHANGED <<state, data, call>>

\* A batch conversation starts in an idle session.  The keyboard of the
\* model toggles the cities of MassCityTokens; the sessions that toggled every
\* city of the registry in order, chose Image and a channel are initial states
\* too.
InitMass ==
    /\ call = NoCall
    /\ \/ IdleSession
       \/ /\ state = MASS_CONFIRMING
          /\ shown = Reply("answer", <<"mass: confirm">>)
          /\ \E channel \in ChannelType :
                data = update_data(mass_created,
                         [selected_cities |-> ALL_CITIES,
                          creative_type |-> IMAGE, channel |-> channel])

NextMass ==
    \/ cmd_start
    \/ cmd_mass_create
    \/ mass_process_type_selection
    \/ toggle_city_selection
    \/ mass_cities_ready
    \/ mass_process_channel_selection
    \/ mass_process_start_date
    \/ mass_process_end_date
    \/ mass_process_max_discount
    \/ mass_process_discount_size
    \/ mass_process_discount_unit
    \/ mass_process_usage_count
    \/ generate_mass_disclaimers
    \/ mass_edit_parameters
    \/ mass_restart_creation
    \/ handle_unhandled_callback
    \/ handle_text

SpecMass == InitMass /\ [][NextMass]_vars

(***************************************************************************)
(* handlers.py: the single-city conversation.  A handler that raises       *)
(* leaves what it did before the exception: the reply "raised" stands for  *)
(* the exception no handler catches.                                       *)
(***************************************************************************)
cmd_help ==
    /\ shown' = Reply("answer", <<"help">>)
    /\ UNCHANGED <<state, data, call>>

\* state.clear(), set_state(choosing_type)
cmd_create ==
    /\ state' = DisclaimerCreation.choosing_type
    /\ data' = <<>>
    /\ shown' = Reply("answer", <<"choose type">>)
    /\ UNCHANGED call

process_type_selection ==
    /\ state = DisclaimerCreation.choosing_type
    /\ \E creative_type \in CreativeType :
          data' = update_data(data, [creative_type |-> creative_type])
    /\ state' = DisclaimerCreation.choosing_geography
    /\ shown' = Reply("edit_text", <<"choose geography">>)
    /\ UNCHANGED call

process_geography_selection ==
    /\ state = DisclaimerCreation.choosing_geography
    /\ \E city \in SingleCities : data' = update_data(data, [city |-> city])
    /\ state' = DisclaimerCreation.choosing_channel
    /\ shown' = Reply("edit_text", <<"choose channel">>)
    /\ UNCHANGED call

\* show_confirmation(message, state) with the data d: the state is set
\* before the summary reads data["creative_type"], data['city'] and
\* data['channel']
show_confirmation(d) ==
    /\ state' = DisclaimerCreation.confirming
    /\ shown' = IF {"creative_type", "city", "channel"} \subseteq DOMAIN d
                THEN Reply("answer", <<"confirm">>)
                ELSE Reply("raised", <<"KeyError">>)

process_channel_selection ==
    /\ state = DisclaimerCreation.choosing_channel
    /\ \E channel \in ChannelType :
          data' = update_data(data, [channel |-> channel])
    /\ IF "creative_type" \notin DOMAIN data
       THEN /\ shown' = Reply("raised", <<"KeyError">>)
            /\ UNCHANGED state
       ELSE IF data["creative_type"] \in {DYNAMIC_NEWCOMER, CLASSIC_NEWCOMER,
                                          PROMO_CODE, CERTIFICATE}
       THEN /\ state' = DisclaimerCreation.entering_end_date
            /\ shown' = Reply("answer", <<"enter end date">>)
       ELSE IF data["creative_type"] = VENDOR
       THEN /\ state' = DisclaimerCreation.entering_start_date
            /\ shown' = Reply("answer", <<"enter start date">>)
       ELSE show_confirmation(data')
    /\ UNCHANGED call

\* The "back" buttons stay on earlier messages of the chat and are taken in
\* every state.  The model presses them in sessions that hold at most
\* MaxBackFields collected fields.
MaxBackFields == 2

back_to_type ==
    /\ Cardinality(DOMAIN data) <= MaxBackFields
    /\ state' = DisclaimerCreation.choosing_type
    /\ shown' = Reply("edit_text", <<"choose type">>)
    /\ UNCHANGED <<data, call>>

back_to_geography_forgetting ==
    /\ Cardinality(DOMAIN data) <= MaxBackFields
    /\ state' = DisclaimerCreation.choosing_geography
    /\ data' = [key \in DOMAIN data \ {"city"} |-> data[key]]
    /\ shown' = Reply("edit_text", <<"choose geography">>)
    /\ UNCHANGED call

\* back_to_geography in a session of at most fields collected fields
back_to_geography_within(fields) ==
    /\ Cardinality(DOMAIN data) <= fields
    /\ state' = DisclaimerCreation.choosing_geography
    /\ shown' = Reply("edit_text", <<"choose geography">>)
    /\ UNCHANGED <<data, call>>

back_to_geography == back_to_geography_within(MaxBackFields)

back_to_channel ==
    /\ Cardinality(DOMAIN data) <= MaxBackFields
    /\ state' = DisclaimerCreation.choosing_channel
    /\ shown' = Reply("edit_text", <<"choose channel">>)
    /\ UNCHANGED <<data, call>>

process_start_date ==
    /\ state = DisclaimerCreation.entering_start_date
    /\ \E text \in SingleDateTexts :
          LET start_date == strip(text)
          IN  IF ~validate_date(start_date).ok
              THEN /\ shown' = Reply("answer", validate_date(start_date).error)
                   /\ UNCHANGED <<state, data>>
              ELSE /\ data' = update_data(data, [start_date |-> Some(start_date)])
                   /\ state' = DisclaimerCreation.entering_end_date
                   /\ shown' = Reply("answer", <<"enter end date">>)
    /\ UNCHANGED call

process_end_date_unordered ==
    /\ state = DisclaimerCreation.entering_end_date
    /\ \E text \in SingleDateTexts :
          LET end_date == strip(text)
              creative_type == data["creative_type"]
          IN  IF ~validate_date(end_date).ok
              THEN /\ shown' = Reply("answer", validate_date(end_date).error)
                   /\ UNCHANGED <<state, data>>
              ELSE /\ data' = update_data(data, [end_date |-> Some(end_date)])
                   /\ IF creative_type = CLASSIC_NEWCOMER
                      THEN /\ state' = DisclaimerCreation.entering_max_discount
                           /\ shown' = Reply("answer", <<"enter max discount">>)
                      ELSE IF creative_type = PROMO_CODE
                      THEN /\ state' = DisclaimerCreation.entering_discount_size
                           /\ shown' = Reply("answer", <<"enter discount size">>)
                      ELSE IF creative_type = CERTIFICATE
                      THEN /\ state' = DisclaimerCreation.entering_usage_count
                           /\ shown' = Reply("answer", <<"enter usage count">>)
                      ELSE IF creative_type \in {DYNAMIC_NEWCOMER, VENDOR}
                      THEN show_confirmation(data')
                      ELSE /\ shown' = <<>>
                           /\ UNCHANGED state
    /\ UNCHANGED call

process_end_date ==
    /\ state = DisclaimerCreation.entering_end_date
    /\ \E text \in SingleDateTexts :
          LET end_date == strip(text)
              creative_type == data["creative_type"]
              order == validate_dates_order(Val(data["start_date"]), end_date)
          IN  IF ~validate_date(end_date).ok
              THEN /\ shown' = Reply("answer", validate_date(end_date).error)
                   /\ UNCHANGED <<state, data>>
              ELSE /\ data' = update_data(data, [end_date |-> Some(end_date)])
                   /\ IF creative_type = VENDOR /\ ~order.ok
                      THEN /\ shown' = Reply("answer", order.error)
                           /\ UNCHANGED state
                      ELSE IF creative_type = CLASSIC_NEWCOMER
                      THEN /\ state' = DisclaimerCreation.entering_max_discount
                           /\ shown' = Reply("answer", <<"enter max discount">>)
                      ELSE IF creative_type = PROMO_CODE
                      THEN /\ state' = DisclaimerCreation.entering_discount_size
                           /\ shown' = Reply("answer", <<"enter discount size">>)
                      ELSE IF creative_type = CERTIFICATE
                      THEN /\ state' = DisclaimerCreation.entering_usage_count
                           /\ shown' = Reply("answer", <<"enter usage count">>)
                      ELSE IF creative_type \in {DYNAMIC_NEWCOMER, VENDOR}
                      THEN show_confirmation(data')
                      ELSE /\ shown' = <<>>
                           /\ UNCHANGED state
    /\ UNCHANGED call

process_max_discount_advancing ==
    /\ state = DisclaimerCreation.entering_max_discount
    /\ \E text \in SingleNumberTexts :
          LET max_discount == py_int(strip(text))
          IN  IF max_discount = None \/ num_le(Val(max_discount), 0)
              THEN /\ shown' = Reply("answer", <<"enter a positive integer">>)
                   /\ state' = DisclaimerCreation.choosing_delivery_info
                   /\ UNCHANGED data
              ELSE /\ data' = update_data(data,
                                [max_discount_amount |-> max_discount])
                   /\ state' = DisclaimerCreation.choosing_delivery_info
                   /\ shown' = Reply("answer", <<"add delivery info?">>)
    /\ UNCHANGED call

process_max_discount ==
    /\ state = DisclaimerCreation.entering_max_discount
    /\ \E text \in SingleNumberTexts :
          LET max_discount == py_int(strip(text))
          IN  IF max_discount = None \/ num_le(Val(max_discount), 0)
              THEN /\ shown' = Reply("answer", <<"enter a positive integer">>)
                   /\ UNCHANGED <<state, data>>
              ELSE /\ data' = update_data(data,
                                [max_discount_amount |-> max_discount])
                   /\ state' = DisclaimerCreation.choosing_delivery_info
                   /\ shown' = Reply("answer", <<"add delivery info?">>)
    /\ UNCHANGED call

process_delivery_choice ==
    /\ state = DisclaimerCreation.choosing_delivery_info
    /\ \E choice \in {"yes", "no"} :
          IF choice = "yes"
          THEN /\ data' = update_data(data, [add_delivery_info |-> TRUE])
               /\ state' = DisclaimerCreation.entering_delivery_text
               /\ shown' = Reply("edit_text", <<"enter delivery text or /skip">>)
          ELSE /\ data' = update_data(data, [add_delivery_info |-> FALSE])
               /\ show_confirmation(data')
    /\ UNCHANGED call

skip_delivery_text ==
    /\ state = DisclaimerCreation.entering_delivery_text
    /\ show_confirmation(data)
    /\ UNCHANGED <<data, call>>

\* process_delivery_text with the text of the message
delivery_text(text) ==
    /\ state = DisclaimerCreation.entering_delivery_text
    /\ data' = update_data(data, [delivery_info_text |-> Some(strip(text))])
    /\ show_confirmation(data')
    /\ UNCHANGED call

process_delivery_text == \E text \in SingleTexts : delivery_text(text)

process_discount_size ==
    /\ state = DisclaimerCreation.entering_discount_size
    /\ \E text \in SingleNumberTexts :
          LET discount_size == py_float(replace_comma(strip(text)))
          IN  IF discount_size = None \/ num_le(Val(discount_size), 0)
              THEN /\ shown' = Reply("answer", <<"enter a positive number">>)
                   /\ UNCHANGED <<state, data>>
              ELSE /\ data' = update_data(data, [discount_size |-> discount_size])
                   /\ state' = DisclaimerCreation.choosing_discount_unit
                   /\ shown' = Reply("answer", <<"choose unit">>)
    /\ UNCHANGED call

\* the unit is stored before the percentage is compared with 100
process_discount_unit ==
    /\ state = DisclaimerCreation.choosing_discount_unit
    /\ \E unit \in MassUnitTokens :
          /\ data' = update_data(data, [discount_unit |-> Some(unit)])
          /\ IF /\ unit = PERCENT
                /\ num_gt(Val(get_default(data, "discount_size", Some(PyInt(0)))),
                          100)
             THEN /\ state' = DisclaimerCreation.entering_discount_size
                  /\ shown' = Reply("edit_text", <<"percentage above 100">>)
             ELSE /\ state' = DisclaimerCreation.choosing_first_order
                  /\ shown' = Reply("answer", <<"first order only?">>)
    /\ UNCHANGED call

process_first_order_choice_skipping ==
    /\ state = DisclaimerCreation.choosing_first_order
    /\ \E choice \in {"yes", "no"} :
          /\ data' = update_data(data, [first_order_only |-> (choice = "yes")])
          /\ IF choice = "yes"
             THEN /\ state' = DisclaimerCreation.entering_min_amount
                  /\ shown' = Reply("answer", <<"enter min amount or /skip">>)
             ELSE /\ state' = DisclaimerCreation.choosing_category
                  /\ shown' = Reply("answer", <<"specific category?">>)
    /\ UNCHANGED call

process_first_order_choice ==
    /\ state = DisclaimerCreation.choosing_first_order
    /\ \E choice \in {"yes", "no"} :
          data' = update_data(data, [first_order_only |-> (choice = "yes")])
    /\ state' = DisclaimerCreation.choosing_category
    /\ shown' = Reply("answer", <<"specific category?">>)
    /\ UNCHANGED call

\* process_category_choice with the answer choice
category_choice(choice) ==
    /\ state = DisclaimerCreation.choosing_category
    /\ IF choice = "yes"
       THEN /\ state' = DisclaimerCreation.entering_category_name
            /\ shown' = Reply("edit_text", <<"enter category name">>)
       ELSE /\ state' = DisclaimerCreation.entering_min_amount
            /\ shown' = Reply("answer", <<"enter min amount or /skip">>)
    /\ UNCHANGED <<data, call>>

process_category_choice == \E choice \in {"yes", "no"} : category_choice(choice)

process_category_name ==
    /\ state = DisclaimerCreation.entering_category_name
    /\ \E text \in SingleTexts :
          data' = update_data(data, [specific_category |-> Some(strip(text))])
    /\ state' = DisclaimerCreation.entering_min_amount
    /\ shown' = Reply("answer", <<"enter min amount or /skip">>)
    /\ UNCHANGED call

skip_min_amount ==
    /\ state = DisclaimerCreation.entering_min_amount
    /\ state' = DisclaimerCreation.entering_max_discount_promo
    /\ shown' = Reply("answer", <<"enter max discount or /skip">>)
    /\ UNCHANGED <<data, call>>

process_min_amount ==
    /\ state = DisclaimerCreation.entering_min_amount
    /\ \E text \in SingleNumberTexts :
          LET min_amount == py_int(strip(text))
          IN  IF min_amount = None \/ num_le(Val(min_amount), 0)
              THEN /\ shown' = Reply("answer", <<"enter a positive integer">>)
                   /\ UNCHANGED <<state, data>>
              ELSE /\ data' = update_data(data, [min_order_amount |-> min_amount])
                   /\ state' = DisclaimerCreation.entering_max_discount_promo
                   /\ shown' = Reply("answer", <<"enter max discount or /skip">>)
    /\ UNCHANGED call

skip_max_discount_promo ==
    /\ state = DisclaimerCreation.entering_max_discount_promo
    /\ show_confirmation(data)
    /\ UNCHANGED <<data, call>>

process_max_discount_promo ==
    /\ state = DisclaimerCreation.entering_max_discount_promo
    /\ \E text \in SingleNumberTexts :
          LET max_discount == py_int(strip(text))
          IN  IF max_discount = None \/ num_le(Val(max_discount), 0)
              THEN /\ shown' = Reply("answer", <<"enter a positive integer">>)
                   /\ UNCHANGED <<state, data>>
              ELSE /\ data' = update_data(data,
                                [max_promo_discount |-> max_discount])
                   /\ show_confirmation(data')
    /\ UNCHANGED call

process_usage_count ==
    /\ state = DisclaimerCreation.entering_usage_count
    /\ \E text \in SingleNumberTexts :
          LET usage_count == py_int(strip(text))
          IN  IF usage_count = None \/ num_le(Val(usage_count), 0)
              THEN /\ shown' = Reply("answer", <<"enter a positive integer">>)
                   /\ UNCHANGED <<state, data>>
              ELSE /\ data' = update_data(data, [usage_count |-> usage_count])
                   /\ show_confirmation(data')
    /\ UNCHANGED call

\* generate_disclaimer after generator.generate(params): the result or the
\* validation error is shown and the session is cleared; another exception
\* leaves the handler
disclaimer_generated(disclaimer) ==
    IF disclaimer.raised = ""
    THEN /\ shown' = Reply("result", disclaimer.value)
         /\ state' = Idle
         /\ data' = <<>>
    ELSE IF disclaimer.raised = "ValidationError"
    THEN /\ shown' = ValidationErrorReply(disclaimer.value)
         /\ state' = Idle
         /\ data' = <<>>
    ELSE /\ shown' = Reply("raised", disclaimer.value)
         /\ UNCHANGED <<state, data>>

generate_disclaimer_any_state ==
    /\ IF {"creative_type", "city", "channel"} \subseteq DOMAIN data
       THEN disclaimer_generated(generate(mass_params(data, data["city"])))
       ELSE /\ shown' = Reply("raised", <<"KeyError">>)
            /\ UNCHANGED <<state, data>>
    /\ UNCHANGED call

\* the parameters are built as in the batch loop, with city = data["city"];
\* data["creative_type"], data["city"] and data["channel"] raise KeyError
\* when the key is missing, and only ValidationError is caught
generate_disclaimer ==
    /\ state = DisclaimerCreation.confirming
    /\ IF {"creative_type", "city", "channel"} \subseteq DOMAIN data
       THEN disclaimer_generated(generate(mass_params(data, data["city"])))
       ELSE /\ shown' = Reply("raised", <<"KeyError">>)
            /\ UNCHANGED <<state, data>>
    /\ UNCHANGED call

edit_parameters_keeping_data ==
    /\ state = DisclaimerCreation.confirming
    /\ state' = DisclaimerCreation.choosing_type
    /\ shown' = Reply("answer", <<"start again">>)
                 \o Reply("answer", <<"choose type">>)
    /\ UNCHANGED <<data, call>>

\* state.clear() and cmd_create
edit_parameters ==
    /\ state = DisclaimerCreation.confirming
    /\ state' = DisclaimerCreation.choosing_type
    /\ data' = <<>>
    /\ shown' = Reply("answer", <<"start again">>)
                 \o Reply("answer", <<"choose type">>)
    /\ UNCHANGED call

restart_creation ==
    /\ state = DisclaimerCreation.confirming
    /\ state' = DisclaimerCreation.choosing_type
    /\ data' = <<>>
    /\ shown' = Reply("answer", <<"choose type">>)
    /\ UNCHANGED call

\* result:new, in every state
create_new_disclaimer ==
    /\ state' = DisclaimerCreation.choosing_type
    /\ data' = <<>>
    /\ shown' = Reply("answer", <<"choose type">>)
    /\ UNCHANGED call

\* result:menu, in every state
show_main_menu ==
    /\ state' = Idle
    /\ data' = <<>>
    /\ shown' = Reply("answer", <<"main menu">>)
    /\ UNCHANGED call

\* The bot: the handlers of both conversations on the session of one user.
InitBot == call = NoCall /\ IdleSession

NextBot ==
    \/ NextMass
    \/ cmd_help
    \/ cmd_create
    \/ process_type_selection
    \/ process_geography_selection
    \/ process_channel_selection
    \/ back_to_type
    \/ back_to_geography
    \/ back_to_channel
    \/ process_start_date
    \/ process_end_date
    \/ process_max_discount
    \/ process_delivery_choice
    \/ skip_delivery_text
    \/ process_delivery_text
    \/ process_discount_size
    \/ process_discount_unit
    \/ process_first_order_choice
    \/ process_category_choice
    \/ process_category_name
    \/ skip_min_amount
    \/ process_min_amount
    \/ skip_max_discount_promo
    \/ process_max_discount_promo
    \/ process_usage_count
    \/ generate_disclaimer
    \/ edit_parameters
    \/ restart_creation
    \/ create_new_disclaimer
    \/ show_main_menu

SpecBot == InitBot /\ [][NextBot]_vars


(***************************************************************************)
(* Properties of the validators (SpecValidators)                           *)
(***************************************************************************)
DateDay(s) == int(SubSeq(s, 1, 2))
DateMonth(s) == int(SubSeq(s, 4, 5))

\* two digits, dot, two digits, dot, two or four digits
HasDateForm(s) ==
    /\ Len(s) \in {8, 10}
    /\ s[3] = "." /\ s[6] = "."
    /\ \A i \in (1..Len(s)) \ {3, 6} : IsDigit(s[i])

LooseCalendarDate(s) ==
    /\ HasDateForm(s)
    /\ DateMonth(s) \in 1..12
    /\ DateDay(s) \in 1..31
    /\ (DateMonth(s) \in {4, 6, 9, 11} => DateDay(s) <= 30)
    /\ (DateMonth(s) = 2 => DateDay(s) <= 29)

\* C1: validate_date accepts a string if and only if it has the form DD.MM.YY
\* or DD.MM.YYYY with month in 1..12, day in 1..31, day <= 30 for the months
\* 4, 6, 9 and 11 and day <= 29 for month 2; every other string is rejected.
C1_AcceptsExactlyDates ==
    Called("validate_date") =>
        (call.ret.ok <=> LooseCalendarDate(call.args[1]))

\* The strings the code accepts beyond the claim of C1 are the dates followed
\* by one newline.
C1_AcceptsDatesAndNewline ==
    Called("validate_date") =>
        (call.ret.ok <=>
            \/ LooseCalendarDate(call.args[1])
            \/ /\ Len(call.args[1]) > 0
               /\ call.args[1][Len(call.args[1])] = "\n"
               /\ LooseCalendarDate(SubSeq(call.args[1], 1, Len(call.args[1]) - 1)))

\* The reading of a date by C7: three fields separated by dots, a day of one
\* or two digits (or a blank and a digit), a month of one or two digits and
\* a year of two or four digits, that name a day of the calendar.
FieldValue(f) == IF Len(f) = 2 /\ f[1] = " " THEN int(Tail(f)) ELSE int(f)

CenturyYear(f) ==
    IF Len(f) = 4 THEN int(f)
    ELSE IF int(f) <= 68 THEN 2000 + int(f) ELSE 1900 + int(f)

IsCalendarDate(s) ==
    LET f == split(s, ".")
    IN  /\ Len(f) = 3
        /\ Len(f[3]) \in {2, 4} /\ AllDigits(f[3])
        /\ Len(f[2]) \in {1, 2} /\ AllDigits(f[2])
        /\ \/ Len(f[1]) \in {1, 2} /\ AllDigits(f[1])
           \/ Len(f[1]) = 2 /\ f[1][1] = " " /\ IsDigit(f[1][2])
        /\ CenturyYear(f[3]) >= 1
        /\ FieldValue(f[2]) \in 1..12
        /\ FieldValue(f[1]) >= 1
        /\ FieldValue(f[1]) <= days_in_month(CenturyYear(f[3]), FieldValue(f[2]))

\* the number of the day in the proleptic Gregorian calendar
DaysBeforeMonth(year, month) ==
    LET before == <<0, 31, 59, 90, 120, 151, 181, 212, 243, 273, 304, 334>>
    IN  before[month] + (IF month > 2 /\ is_leap(year) THEN 1 ELSE 0)

Ordinal(s) ==
    LET f == split(s, ".")
        y == CenturyYear(f[3]) - 1
    IN  365 * y + (y \div 4) - (y \div 100) + (y \div 400)
        + DaysBeforeMonth(y + 1, FieldValue(f[2])) + FieldValue(f[1])

OrderMessage == <<"Data nachala dolzhna byt ranshe daty okonchaniya">>
ComparisonMessage == <<"Oshibka pri sravnenii dat">>

\* C7: validate_dates_order(start, end) succeeds if and only if start is
\* strictly earlier than end, a two-digit year mapped to its century and a
\* four-digit year taken literally; equal dates and a later start fail with
\* the date-order message, an unparsable side with the comparison message.
C7_DatesOrder ==
    Called("validate_dates_order") =>
        LET start == call.args[1]
            end == call.args[2]
        IN  IF IsCalendarDate(start) /\ IsCalendarDate(end)
            THEN IF Ordinal(start) < Ordinal(end)
                 THEN call.ret = Ok
                 ELSE call.ret = Fail(OrderMessage)
            ELSE call.ret = Fail(ComparisonMessage)

D_01_01_25 == <<"0", "1", ".", "0", "1", ".", "2", "5">>

C7_Witness ==
    /\ Called("validate_dates_order")
    /\ call.args = <<D_01_01_25, D_01_01_24>>
    /\ call.ret = Fail(OrderMessage)

\* C8: validate_percentage accepts an absent value, and a present value if
\* and only if 0 < value <= 100.
C8_Percentage ==
    Called("validate_percentage") =>
        (call.ret.ok <=>
            \/ call.args[1] = None
            \/ /\ Val(call.args[1]).t # "nan"
               /\ 0 < Val(call.args[1]).v /\ Val(call.args[1]).v <= 100)

C8_Witness ==
    /\ Called("validate_percentage")
    /\ call.args[1] = Some(PyInt(100))
    /\ call.ret.ok

(***************************************************************************)
(* Properties of the gate, the resolver and generate (SpecGenerator)       *)
(***************************************************************************)
\* the lower-cased, trimmed name is a corporate city or a franchise key
CityInRegistry(city) ==
    strip(lower(city)) \in Elems(CORPORATE_CITIES) \cup Elems(FRANCHISE_KEYS)

ValidDate(o) == o # None /\ validate_date(Val(o)).ok

Positive(o) == o # None /\ Val(o).t # "nan" /\ Val(o).v > 0

\* an accepted date as <<year, month, day>>, a two-digit year in its century
DateKey(s) ==
    LET year == IF Len(s) >= 10 /\ IsDigit(s[9]) THEN SubSeq(s, 7, 10)
                ELSE SubSeq(s, 7, 8)
    IN  <<CenturyYear(year), DateMonth(s), DateDay(s)>>

Before(a, b) ==
    \/ a[1] < b[1]
    \/ a[1] = b[1] /\ a[2] < b[2]
    \/ a[1] = b[1] /\ a[2] = b[2] /\ a[3] < b[3]

\* the rules of the creative types as C2 states them
TypeRules(p) ==
    CASE p.creative_type = DYNAMIC_NEWCOMER -> ValidDate(p.end_date)
      [] p.creative_type = CLASSIC_NEWCOMER ->
            ValidDate(p.end_date) /\ Positive(p.max_discount_amount)
      [] p.creative_type = PROMO_CODE ->
            /\ ValidDate(p.end_date)
            /\ p.discount_size # None
            /\ p.discount_unit \in {Some(PERCENT), Some(RUB)}
            /\ Positive(p.discount_size)
            /\ (p.discount_unit = Some(PERCENT) => Val(p.discount_size).v <= 100)
            /\ (p.min_order_amount # None => Positive(p.min_order_amount))
            /\ (p.max_promo_discount # None => Positive(p.max_promo_discount))
      [] p.creative_type = CERTIFICATE ->
            /\ ValidDate(p.end_date)
            /\ Positive(p.usage_count) /\ Val(p.usage_count).t = "int"
      [] p.creative_type = VENDOR ->
            /\ ValidDate(p.start_date) /\ ValidDate(p.end_date)
            /\ Before(DateKey(Val(p.start_date)), DateKey(Val(p.end_date)))
      [] OTHER -> TRUE

\* C2: validate_params accepts a parameter set if and only if its city is in
\* the registry and the rules of its creative type hold (a valid end date, a
\* positive amount, a size in (0,100] for % and above 0 for RUB, a positive
\* integer usage count, a start date before the end date, ...).
C2_GateAcceptsExactly ==
    Called("validate_params") =>
        (call.ret.ok <=>
            CityInRegistry(call.args[1].city) /\ TypeRules(call.args[1]))

\* the gate lets through a PromoCode whose size is not a number above 0
C2_NaNSizeAccepted ==
    /\ Called("validate_params")
    /\ call.args[1].creative_type = PROMO_CODE
    /\ call.args[1].discount_size = Some(NaN)
    /\ call.args[1].discount_unit = Some(RUB)
    /\ call.ret.ok

\* the gate refuses a Vendor whose dates validate_date accepted, in order
C2_VendorRejected ==
    /\ Called("validate_params")
    /\ call.args[1].creative_type = VENDOR
    /\ call.args[1].start_date = Some(D_29_02_23)
    /\ call.args[1].end_date = Some(D_01_03_23)
    /\ CityInRegistry(call.args[1].city)
    /\ call.ret = Fail(ComparisonMessage)

CityNotSpecified == <<"Gorod ne ukazan">>

\* C3 as stated: for every creative type, when the city is not in the
\* registry generate fails with the city-not-found error, whatever the other
\* fields are.
C3_CityNotFoundFirst ==
    (Called("generate") /\ ~CityInRegistry(call.args[1].city)) =>
        call.ret = Raised("ValidationError", city_not_found(call.args[1].city))

\* C3: for every creative type, when the city is not in the registry generate
\* fails with a city error, whatever the other fields are: the
\* city-not-specified error for the empty string and the city-not-found error
\* for every other name; the city check comes before every check of the type.
C3_CityErrorFirst ==
    (Called("generate") /\ ~CityInRegistry(call.args[1].city)) =>
        call.ret = Raised("ValidationError",
                          IF call.args[1].city = <<>> THEN CityNotSpecified
                          ELSE city_not_found(call.args[1].city))

\* an unknown city with a Vendor whose own fields all fail
C3_Witness ==
    /\ Called("generate")
    /\ call.args[1].creative_type = VENDOR
    /\ call.args[1].city = <<"atlantis">>
    /\ call.args[1].start_date = Some(D_text)
    /\ call.args[1].end_date = None
    /\ call.ret = Raised("ValidationError", city_not_found(<<"atlantis">>))

\* The checks of the gate, one name per rule.  A required field is missing
\* when the gate finds it absent or empty (zero for a number); the other
\* rules are the field validators.
Malformed(o) == truthy_str(o) /\ ~validate_date(Val(o)).ok

FailedChecks(p) ==
    LET t == p.creative_type
        dated == t \in {DYNAMIC_NEWCOMER, CLASSIC_NEWCOMER, PROMO_CODE,
                        CERTIFICATE, VENDOR}
        unit_ok == truthy_str(p.discount_unit)
                   /\ Val(p.discount_unit) \in {PERCENT, RUB}
    IN  {c \in {"city"} : ~validate_city(p.city).ok}
        \cup {c \in {"start_missing"} : t = VENDOR /\ ~truthy_str(p.start_date)}
        \cup {c \in {"start_malformed"} : t = VENDOR /\ Malformed(p.start_date)}
        \cup {c \in {"end_missing"} : dated /\ ~truthy_str(p.end_date)}
        \cup {c \in {"end_malformed"} : dated /\ Malformed(p.end_date)}
        \cup {c \in {"order"} :
                /\ t = VENDOR
                /\ truthy_str(p.start_date) /\ truthy_str(p.end_date)
                /\ ~Malformed(p.start_date) /\ ~Malformed(p.end_date)
                /\ ~validate_dates_order(Val(p.start_date), Val(p.end_date)).ok}
        \cup {c \in {"amount_missing"} :
                t = CLASSIC_NEWCOMER /\ ~truthy_num(p.max_discount_amount)}
        \cup {c \in {"amount_range"} :
                /\ t = CLASSIC_NEWCOMER /\ truthy_num(p.max_discount_amount)
                /\ ~validate_positive_number(p.max_discount_amount, "").ok}
        \cup {c \in {"size_missing"} :
                t = PROMO_CODE /\ ~truthy_num(p.discount_size)}
        \cup {c \in {"unit"} : t = PROMO_CODE /\ ~unit_ok}
        \cup {c \in {"size_range"} :
                /\ t = PROMO_CODE /\ truthy_num(p.discount_size) /\ unit_ok
                /\ IF Val(p.discount_unit) = PERCENT
                   THEN ~validate_percentage(p.discount_size).ok
                   ELSE ~validate_positive_number(p.discount_size, "").ok}
        \cup {c \in {"min_range"} :
                t = PROMO_CODE
                /\ ~validate_positive_number(p.min_order_amount, "").ok}
        \cup {c \in {"max_range"} :
                t = PROMO_CODE
                /\ ~validate_positive_number(p.max_promo_discount, "").ok}
        \cup {c \in {"count_missing"} :
                t = CERTIFICATE /\ ~truthy_num(p.usage_count)}
        \cup {c \in {"count_range"} :
                /\ t = CERTIFICATE /\ truthy_num(p.usage_count)
                /\ ~(Val(p.usage_count).t = "int" /\ Val(p.usage_count).v > 0)}

\* the check that an error message of the gate reports
ReportedCheck(p, error) ==
    LET positive(name) == <<name, " dolzhno byt polozhitelnym chislom">>
    IN  CASE error \in {CityNotSpecified, city_not_found(p.city)} -> "city"
          [] error = <<"Data nachala obyazatelna">> -> "start_missing"
          [] error = end_date_required -> "end_missing"
          [] Len(error) > 0 /\ error[1] = "Data nachala: " -> "start_malformed"
          [] Len(error) > 0 /\ error[1] = "Data okonchaniya: " -> "end_malformed"
          [] /\ p.creative_type # VENDOR /\ Malformed(p.end_date)
             /\ error = validate_date(Val(p.end_date)).error -> "end_malformed"
          [] error \in {OrderMessage, ComparisonMessage} -> "order"
          [] error = <<"Maksimalnyy razmer skidki obyazatelen">> -> "amount_missing"
          [] error = positive("Maksimalnyy razmer skidki") -> "amount_range"
          [] error = <<"Razmer skidki obyazatelen">> -> "size_missing"
          [] error = <<"Edinitsa izmereniya skidki dolzhna byt % ili RUB">> -> "unit"
          [] error \in {<<"Protsent dolzhen byt ot 0 do 100">>,
                        positive("Razmer skidki")} -> "size_range"
          [] error = positive("Minimalnaya summa zakaza") -> "min_range"
          [] error = positive("Maksimalnaya skidka") -> "max_range"
          [] error = <<"Kolichestvo primeneniy obyazatelno">> -> "count_missing"
          [] error = <<"Kolichestvo primeneniy dolzhno byt tselym polozhitelnym chislom">>
                -> "count_range"
          [] OTHER -> "unknown"

\* the order of the table: the city, the start date, the end date, the other
\* required fields, the extra rules
TableOrder ==
    <<"city", "start_missing", "start_malformed", "end_missing",
      "end_malformed", "amount_missing", "size_missing", "unit",
      "count_missing", "order", "amount_range", "size_range", "count_range",
      "min_range", "max_range">>

\* the same order with the presence of both Vendor dates checked before the
\* form of either
PresenceFirstOrder ==
    <<"city", "start_missing", "end_missing", "start_malformed",
      "end_malformed", "amount_missing", "size_missing", "unit",
      "count_missing", "order", "amount_range", "size_range", "count_range",
      "min_range", "max_range">>

Earliest(order, checks) ==
    order[CHOOSE i \in 1..Len(order) :
            /\ order[i] \in checks
            /\ \A j \in 1..(i - 1) : order[j] \notin checks]

\* C4 as stated: when several rules fail at once validate_params reports the
\* failure of the earliest field in the order of the table; for Vendor a
\* missing or malformed start date is reported in preference to any failure
\* of the end date.
C4_TableOrder ==
    (Called("validate_params") /\ ~call.ret.ok) =>
        /\ FailedChecks(call.args[1]) # {}
        /\ ReportedCheck(call.args[1], call.ret.error)
             = Earliest(TableOrder, FailedChecks(call.args[1]))

\* C4: when several rules fail at once validate_params reports the earliest
\* failed check in the order city, missing start date (Vendor), missing end
\* date, malformed start date (Vendor), malformed end date, the other required
\* fields, the extra rules: for Vendor a missing start date is reported in
\* preference to any failure of the end date, and a malformed start date in
\* preference to a malformed end date but after a missing end date.
C4_PresenceFirstOrder ==
    (Called("validate_params") /\ ~call.ret.ok) =>
        /\ FailedChecks(call.args[1]) # {}
        /\ ReportedCheck(call.args[1], call.ret.error)
             = Earliest(PresenceFirstOrder, FailedChecks(call.args[1]))

\* a Vendor with a malformed start date and no end date
C4_Witness ==
    /\ Called("validate_params")
    /\ call.args[1].creative_type = VENDOR
    /\ validate_city(call.args[1].city).ok
    /\ call.args[1].start_date = Some(D_text)
    /\ call.args[1].end_date = None
    /\ call.ret = Fail(end_date_required)

\* C5: validate_city succeeds if and only if get_legal_entity does not fail
\* for the same string (for either channel), both comparing the lower-cased,
\* trimmed name against the union of the corporate and franchise keys; hence
\* generate never fails with the unknown-city error of the resolver.
C5_CityMirrorsResolver ==
    /\ Called("validate_city") =>
          /\ call.ret.ok <=> CityInRegistry(call.args[1])
          /\ \A ch \in ChannelType :
                call.ret.ok <=> get_legal_entity(call.args[1], ch).raised = ""
    /\ Called("get_legal_entity") =>
          /\ call.ret.raised = "" <=> CityInRegistry(call.args[1])
          /\ call.ret.raised = "" <=> validate_city(call.args[1]).ok
    /\ Called("generate") =>
          /\ call.ret.raised # "ValueError"
          /\ validate_params(call.args[1]).ok => call.ret.raised = ""

\* a padded, upper-cased franchise city passes the check and the resolver
C5_Witness ==
    /\ Called("validate_city")
    /\ call.args[1] = <<" ", "TULA", " ">>
    /\ call.ret.ok
    /\ get_legal_entity(call.args[1], OTHER_CHANNEL).raised = ""

\* the organisation (its OGRN) that each franchise city is registered with
Organisation(key) ==
    CASE key \in {<<"tver">>, <<"vladimir">>} -> "1246900009850"
      [] key \in {<<"velikiy", " ", "novgorod">>,
                  <<"naberezhnye", " ", "chelny">>, <<"nizhnekamsk">>}
            -> "1157847202996"
      [] key \in {<<"cheboksary">>, <<"yoshkar-ola">>} -> "1237700294138"
      [] key = <<"tula">> -> "1234800004878"
      [] key = <<"yaroslavl">> -> "1257600001845"
      [] key = <<"ryazan">> -> "1254800002049"
      [] key = <<"kaluga">> -> "1154028002688"
      [] key = <<"obninsk">> -> "1257800045051"
      [] key = <<"lipetsk">> -> "1254800003875"
      [] key = <<"ivanovo">> -> "1253700005591"
      [] key = <<"tambov">> -> "1254800004700"
      [] key = <<"irkutsk">> -> "1213800013250"

TextFor(entity, channel) ==
    IF channel = TV_RADIO THEN entity.full ELSE entity.short

\* C6: get_legal_entity returns the full text of the entity for TV/radio and
\* its short text otherwise; every corporate city resolves to the one shared
\* operator entity, every franchise city to its own registered entity, and
\* two franchise cities registered with the same organisation return
\* identical text for the same channel.
C6_EntityText ==
    Called("get_legal_entity") =>
        LET key == strip(lower(call.args[1]))
            channel == call.args[2]
        IN  /\ key \in Elems(CORPORATE_CITIES) =>
                  call.ret = Returned(TextFor(YANDEX_LAVKA, channel))
            /\ key \in Elems(FRANCHISE_KEYS) =>
                  /\ call.ret = Returned(TextFor(FRANCHISE_ENTITIES(key), channel))
                  /\ call.ret.value # TextFor(YANDEX_LAVKA, channel)
                  /\ \A other \in Elems(FRANCHISE_KEYS) :
                        Organisation(other) = Organisation(key) =>
                            get_legal_entity(other, channel) = call.ret
            /\ call.ret.raised = "" =>
                  call.ret.value # get_legal_entity(call.args[1],
                        IF channel = TV_RADIO THEN OTHER_CHANNEL
                        ELSE TV_RADIO).value

\* a franchise city that shares its organisation with another city
C6_Witness ==
    /\ Called("get_legal_entity")
    /\ call.args = <<<<"vladimir">>, TV_RADIO>>
    /\ call.ret = Returned(FRANCHISE_ENTITIES(<<"tver">>).full)

Positions(text, segment) == {i \in 1..Len(text) : text[i] = segment}

\* a PromoCode disclaimer that generate returned
PromoGenerated ==
    /\ Called("generate")
    /\ call.args[1].creative_type = PROMO_CODE
    /\ call.ret.raised = ""

\* C12: in a PromoCode disclaimer the first-order clause and the category
\* clause never both appear: with first_order_only the first-order clause
\* appears and the category clause is left out even when a category is set;
\* the category clause appears only without first_order_only and with a
\* category set, and then it names that category.
C12_FirstOrderOrCategory ==
    PromoGenerated =>
        LET params == call.args[1]
            text == call.ret.value
            first == Positions(text, "na pervyy zakaz")
            category == Positions(text, "na zakaz iz kategoriy \"")
        IN  /\ first = {} \/ category = {}
            /\ params.first_order_only => first # {} /\ category = {}
            /\ first # {} => params.first_order_only
            /\ category # {} =>
                  /\ ~params.first_order_only
                  /\ params.specific_category # None
                  /\ \A i \in category :
                        SubSeq(text, i + 1, i + Len(Val(params.specific_category)))
                            = Val(params.specific_category)
            /\ (~params.first_order_only /\ truthy_str(params.specific_category))
                  => category # {}

\* first_order_only and a category are both set
C12_Witness ==
    /\ PromoGenerated
    /\ call.args[1].first_order_only
    /\ call.args[1].specific_category = Some(<<"Frukty">>)
    /\ Positions(call.ret.value, "na pervyy zakaz") # {}

\* C13: in a PromoCode disclaimer the "no more than N RUB" clause appears
\* exactly when max_promo_discount is set and the unit is %, never with the
\* unit RUB; the "from N RUB" clause appears exactly when min_order_amount is
\* set, and always before the "no more than" clause.
C13_MinAndMaxClauses ==
    PromoGenerated =>
        LET params == call.args[1]
            text == call.ret.value
            from == Positions(text, "ot ")
            most == Positions(text, "ne bolee ")
        IN  /\ most # {} <=> (/\ params.max_promo_discount # None
                              /\ params.discount_unit = Some(PERCENT))
            /\ params.discount_unit = Some(RUB) => most = {}
            /\ from # {} <=> params.min_order_amount # None
            /\ \A i \in from, j \in most : i < j
            /\ \A i \in from :
                  SubSeq(text, i + 1,
                         i + Len(format_opt_num(params.min_order_amount)))
                      = format_opt_num(params.min_order_amount)
            /\ \A j \in most :
                  SubSeq(text, j + 1,
                         j + Len(format_opt_num(params.max_promo_discount)))
                      = format_opt_num(params.max_promo_discount)

\* both amounts set with the unit RUB: only the "from" clause is there
C13_Witness ==
    /\ PromoGenerated
    /\ call.args[1].discount_unit = Some(RUB)
    /\ call.args[1].min_order_amount # None
    /\ call.args[1].max_promo_discount # None
    /\ Positions(call.ret.value, "ot ") # {}
    /\ Positions(call.ret.value, "ne bolee ") = {}

\* a ClassicNewcomer disclaimer that generate returned
ClassicGenerated ==
    /\ Called("generate")
    /\ call.args[1].creative_type = CLASSIC_NEWCOMER
    /\ call.ret.raised = ""

\* what a ClassicNewcomer disclaimer says between the sentence of the link
\* and the legal entity
DeliverySentence(text) ==
    LET link == CHOOSE i \in Positions(text, LINK_CITIES) : TRUE
    IN  SubSeq(text, link + 2, Len(text) - 1)

\* C14: a ClassicNewcomer disclaimer has a delivery sentence exactly when
\* add_delivery_info is set; the sentence is the supplied text when a
\* (non-empty) text is supplied and the fixed default text otherwise; a
\* supplied text is ignored when the flag is not set.
C14_DeliverySentence ==
    ClassicGenerated =>
        LET params == call.args[1]
            sentence == DeliverySentence(call.ret.value)
        IN  /\ Cardinality(Positions(call.ret.value, LINK_CITIES)) = 1
            /\ ~params.add_delivery_info => sentence = <<>>
            /\ params.add_delivery_info =>
                  /\ sentence # <<>>
                  /\ sentence =
                        IF /\ params.delivery_info_text # None
                           /\ Val(params.delivery_info_text) # <<>>
                        THEN Val(params.delivery_info_text)
                        ELSE <<DEFAULT_DELIVERY_INFO>>

\* a text is supplied and the flag is not set
C14_Witness ==
    /\ ClassicGenerated
    /\ ~call.args[1].add_delivery_info
    /\ truthy_str(call.args[1].delivery_info_text)
    /\ DeliverySentence(call.ret.value) = <<>>

\* the other channel
OtherChannel(channel) == IF channel = TV_RADIO THEN OTHER_CHANNEL ELSE TV_RADIO

\* C15: the channel selects the entity text only: when generate returns a
\* disclaimer for a parameter set, it returns one for the set that differs
\* in the channel only, and the two texts are the same except that one has
\* the full text of the city's entity where the other has its short text.
C15_ChannelSelectsEntityOnly ==
    (Called("generate") /\ call.ret.raised = "") =>
        LET params == call.args[1]
            text == call.ret.value
            channel == OtherChannel(params.channel)
            other == generate([params EXCEPT !.channel = channel])
            here == get_legal_entity(params.city, params.channel).value
            there == get_legal_entity(params.city, channel).value
        IN  /\ other.raised = ""
            /\ Len(other.value) = Len(text)
            /\ Positions(text, here) # {}
            /\ \A i \in 1..Len(text) :
                  other.value[i] = IF text[i] = here THEN there ELSE text[i]

\* a disclaimer of the type whose template names a link
C15_Witness ==
    /\ Called("generate") /\ call.ret.raised = ""
    /\ call.args[1].creative_type = DYNAMIC_NEWCOMER
    /\ call.args[1].channel = OTHER_CHANNEL
    /\ Positions(call.ret.value, LINK_MO) # {}

(***************************************************************************)
(* Properties of batch generation (SpecMass)                               *)
(***************************************************************************)
SelectedCities == get_default(data, "selected_cities", <<>>)

\* the parameter set of one selected city: the collected fields, the same
\* for every city, and the city
ParamsFor(city) ==
    [CreativeParams(data["creative_type"], city, data["channel"])
        EXCEPT !.end_date = get(data, "end_date"),
               !.start_date = get(data, "start_date"),
               !.max_discount_amount = get(data, "max_discount_amount"),
               !.add_delivery_info = get_default(data, "add_delivery_info", FALSE),
               !.delivery_info_text = get(data, "delivery_info_text"),
               !.discount_size = get(data, "discount_size"),
               !.discount_unit = get(data, "discount_unit"),
               !.first_order_only = get_default(data, "first_order_only", FALSE),
               !.specific_category = get(data, "specific_category"),
               !.min_order_amount = get(data, "min_order_amount"),
               !.max_promo_discount = get(data, "max_promo_discount"),
               !.usage_count = get(data, "usage_count")]

FailsValidation(city) == generate(ParamsFor(city)).raised = "ValidationError"

\* the first selected city whose generation fails validation
FirstFailing ==
    SelectedCities[CHOOSE i \in 1..Len(SelectedCities) :
        /\ FailsValidation(SelectedCities[i])
        /\ \A j \in 1..(i - 1) : ~FailsValidation(SelectedCities[j])]

\* C9: batch generation is all-or-nothing: if generate fails validation for
\* any selected city, the reply of the accept input is the single message of
\* that failure (the first one), it carries no disclaimer of any city, and
\* the session is cleared.
C9_AllOrNothing ==
    [][(/\ generate_mass_disclaimers
        /\ \E i \in 1..Len(SelectedCities) : FailsValidation(SelectedCities[i]))
       => /\ shown' = ValidationErrorReply(generate(ParamsFor(FirstFailing)).value)
          /\ state' = Idle
          /\ data' = <<>>]_vars

\* the reply to a batch whose failing city is not in the registry
C9_Witness ==
    /\ state = Idle
    /\ data = <<>>
    /\ shown = ValidationErrorReply(city_not_found(<<"atlantis">>))

\* C10: for a non-empty list of registry cities and otherwise valid
\* parameters, batch generation returns exactly one (city, text) pair per
\* selected city, in the order of selection, each text the one generate
\* returns for that city with every other field held constant; it succeeds
\* for the list of all registry cities with the type Image.
C10_OnePairPerCity ==
    [][(/\ generate_mass_disclaimers
        /\ Len(SelectedCities) > 0
        /\ \A i \in 1..Len(SelectedCities) :
              /\ CityInRegistry(SelectedCities[i])
              /\ validate_params(ParamsFor(SelectedCities[i])).ok)
       => /\ shown' = MassResult(
                [i \in 1..Len(SelectedCities) |->
                    <<SelectedCities[i],
                      generate(ParamsFor(SelectedCities[i])).value>>])
          /\ \A i \in 1..Len(SelectedCities) :
                generate(ParamsFor(SelectedCities[i])).raised = ""]_vars

\* the result for every city of the registry with the type Image
C10_Witness ==
    /\ state = Idle
    /\ shown = MassResult(
            [i \in 1..Len(ALL_CITIES) |->
                <<ALL_CITIES[i],
                  <<get_legal_entity(ALL_CITIES[i], TV_RADIO).value>>>>])

(***************************************************************************)
(* A second pass through the fields of PromoCode.  The session is in        *)
(* Confirming after a first pass; the Back button of a channel prompt       *)
(* (back:to_geography) takes it to the geography again, with every          *)
(* collected field, and the optional amounts are answered with /skip.       *)
(***************************************************************************)
MaxSkipFields == 12

InitSkip ==
    /\ call = NoCall
    /\ state = DisclaimerCreation.confirming
    /\ shown = Reply("answer", <<"confirm">>)
    /\ \E unit \in MassUnitTokens, first_order_only \in BOOLEAN,
          min_order_amount \in {None, Some(PyInt(20))},
          max_promo_discount \in {None, Some(PyInt(150))} :
          LET required ==
                  update_data(<<>>,
                      [creative_type |-> PROMO_CODE, city |-> <<"moskva">>,
                       channel |-> OTHER_CHANNEL,
                       end_date |-> Some(D_31_12_24),
                       discount_size |-> Some(PyFloat(20)),
                       discount_unit |-> Some(unit),
                       first_order_only |-> first_order_only])
              with_min ==
                  IF min_order_amount = None THEN required
                  ELSE update_data(required,
                                   [min_order_amount |-> min_order_amount])
          IN  data = IF max_promo_discount = None THEN with_min
                     ELSE update_data(with_min,
                              [max_promo_discount |-> max_promo_discount])

NextSkip ==
    \/ back_to_geography_within(MaxSkipFields)
    \/ process_geography_selection
    \/ process_channel_selection
    \/ process_end_date
    \/ process_discount_size
    \/ process_discount_unit
    \/ process_first_order_choice
    \/ process_category_choice
    \/ process_category_name
    \/ skip_min_amount
    \/ skip_max_discount_promo
    \/ generate_disclaimer

SpecSkip == InitSkip /\ [][NextSkip]_vars

(***************************************************************************)
(* Two inputs of one user in flight.  Dispatcher.start_polling handles      *)
(* every update in a task of its own and the dispatcher is created without  *)
(* an events isolation, so the handlers of two updates of the same user     *)
(* run interleaved: a handler gives way at each call of the Telegram API    *)
(* (message.answer, edit_text, delete, callback.answer), never at a call of *)
(* the MemoryStorage.  A handler is cut into the pieces between these        *)
(* calls; call holds the session the inputs met and, per input, the handler *)
(* chosen for it and the piece it has reached.                              *)
(***************************************************************************)
TaskInputs ==
    ({"channel"} \X ChannelType)
    \cup {<<"back", "to_type">>, <<"back", "to_geography">>,
          <<"command", "create">>}

\* the handler the router chooses for the input in the state st
route(st, input) ==
    IF input = <<"command", "create">> THEN "cmd_create"
    ELSE IF ~CallbackHandled(st, input) THEN "handle_unhandled_callback"
    ELSE IF input = <<"back", "to_type">> THEN "back_to_type"
    ELSE IF input = <<"back", "to_geography">> THEN "back_to_geography"
    ELSE "process_channel_selection"

Session(st, d) == [state |-> st, data |-> d]

\* piece k of the handler on the session s: the session after it, the local
\* variables of the handler, and whether the handler still touches the session
piece(handler, k, s, input, local) ==
    CASE handler = "cmd_create" ->
             [session |-> Session(DisclaimerCreation.choosing_type, <<>>),
              local |-> local, done |-> TRUE]
      [] handler = "back_to_type" ->
             [session |-> Session(DisclaimerCreation.choosing_type, s.data),
              local |-> local, done |-> TRUE]
      [] handler = "back_to_geography" ->
             [session |-> Session(DisclaimerCreation.choosing_geography,
                                  s.data),
              local |-> local, done |-> TRUE]
      [] handler = "process_channel_selection" /\ k = 1 ->
             LET d == update_data(s.data, [channel |-> input[2]])
             IN  IF "creative_type" \notin DOMAIN d
                 THEN [session |-> Session(s.state, d), local |-> local,
                       done |-> TRUE]
                 ELSE [session |-> Session(s.state, d),
                       local |-> [creative_type |-> d["creative_type"]],
                       done |-> FALSE]
      [] handler = "process_channel_selection" /\ k = 2 ->
             [session |->
                 Session(IF local.creative_type
                              \in {DYNAMIC_NEWCOMER, CLASSIC_NEWCOMER,
                                   PROMO_CODE, CERTIFICATE}
                         THEN DisclaimerCreation.entering_end_date
                         ELSE IF local.creative_type = VENDOR
                         THEN DisclaimerCreation.entering_start_date
                         ELSE DisclaimerCreation.confirming,
                         s.data),
              local |-> local, done |-> TRUE]
      [] handler = "handle_unhandled_callback" /\ k = 1 ->
             \* the state is read and the alert is sent; state.clear() comes
             \* after the alert
             [session |-> s, local |-> local,
              done |-> unhandled_session(s.state, s.data, input).shown
                           = Reply("alert", <<"unknown command">>)]
      [] OTHER ->
             [session |-> Session(unhandled_session(s.state, s.data,
                                                    input).state,
                                  unhandled_session(s.state, s.data,
                                                    input).data),
              local |-> local, done |-> TRUE]

\* the whole handler of the input on the session s, nothing in between
handle(s, input) ==
    LET handler == route(s.state, input)
        first == piece(handler, 1, s, input, <<>>)
    IN  IF first.done THEN first.session
        ELSE piece(handler, 2, first.session, input, first.local).session

Task(input) == [input |-> input, handler |-> "", pc |-> 0, local |-> <<>>,
                done |-> FALSE]

\* two inputs arrive in a session that waits for the channel
InitTasks ==
    /\ state = DisclaimerCreation.choosing_channel
    /\ \E creative_type \in CreativeType, city \in SingleCities :
          data = update_data(<<>>, [creative_type |-> creative_type,
                                    city |-> city])
    /\ shown = Reply("edit_text", <<"choose channel">>)
    /\ \E first, second \in TaskInputs :
          call = [session |-> Session(state, data),
                  tasks |-> <<Task(first), Task(second)>>]

task_piece(i, handler, k) ==
    LET task == call.tasks[i]
        after == piece(handler, k, Session(state, data), task.input,
                       task.local)
    IN  /\ state' = after.session.state
        /\ data' = after.session.data
        /\ shown' = Reply("piece", <<handler>>)
        /\ call' = [call EXCEPT !.tasks[i] =
                        [task EXCEPT !.handler = handler, !.pc = k,
                                     !.local = after.local,
                                     !.done = after.done]]

\* the task of an update starts: the state is read, the handler is chosen
\* and runs up to its first call of the Telegram API
start_task ==
    \E i \in 1..2 :
        /\ call.tasks[i].pc = 0
        /\ task_piece(i, route(state, call.tasks[i].input), 1)

\* a handler goes on after a call of the Telegram API
resume_task ==
    \E i \in 1..2 :
        /\ call.tasks[i].pc = 1
        /\ ~call.tasks[i].done
        /\ task_piece(i, call.tasks[i].handler, 2)

NextTasks == start_task \/ resume_task

SpecTasks == InitTasks /\ [][NextTasks]_vars

(***************************************************************************)
(* Two users.  The dispatcher keeps the sessions in one MemoryStorage, one  *)
(* record per user, and hands each handler the FSMContext of the user whose *)
(* update it handles; the handlers reach the storage through this context   *)
(* only, and router and generator (handlers.py 32-33) carry no data.  state,*)
(* data and shown are the record of the user whose update is handled, call  *)
(* names that user and holds the records of the storage.                    *)
(***************************************************************************)
Users == {"A", "B"}

Record(st, d, sh) == [state |-> st, data |-> d, shown |-> sh]

InitUsers ==
    /\ IdleSession
    /\ call = [user |-> "A",
               sessions |-> [u \in Users |-> Record(Idle, <<>>, <<>>)]]

fsm_context_shared ==
    \E u \in Users \ {call.user} :
        /\ call' = [call EXCEPT !.user = u]
        /\ UNCHANGED <<state, data, shown>>

\* an update of another user is taken: the record of the user handled so
\* far stays in the storage, the context is the record of the other user
fsm_context ==
    \E u \in Users \ {call.user} :
        /\ state' = call.sessions[u].state
        /\ data' = call.sessions[u].data
        /\ shown' = call.sessions[u].shown
        /\ call' = [user |-> u,
                    sessions |-> [call.sessions EXCEPT
                                     ![call.user] = Record(state, data, shown)]]

\* the conversations up to the disclaimer of Image and Product, for each user
NextUsers ==
    \/ fsm_context
    \/ cmd_create
    \/ process_type_selection
    \/ process_geography_selection
    \/ process_channel_selection
    \/ generate_disclaimer

SpecUsers == InitUsers /\ [][NextUsers]_vars

\* ---------------------------------------------------------------------
\* Properties of the two conversations (SpecBot)
\* ---------------------------------------------------------------------

\* the replies that carry what the generator returned or raised
GeneratorReply(replies) ==
    \E i \in 1..Len(replies) :
        replies[i].kind \in {"result", "mass_result", "validation_error",
                             "exception"}

ConfirmingStates == {DisclaimerCreation.confirming, MASS_CONFIRMING}

\* C16: a step whose reply carries a generated disclaimer, or the error the
\* generator raised, is the accept input taken in Confirming: generate in the
\* single-city Confirming state or the batch loop in the batch Confirming
\* state.  No input in another state and no other input in Confirming shows a
\* generator outcome.
C16_GeneratedOnlyOnAccept ==
    [][GeneratorReply(shown') =>
          \/ state = DisclaimerCreation.confirming /\ generate_disclaimer
          \/ state = MASS_CONFIRMING /\ generate_mass_disclaimers]_vars

\* a single-city disclaimer has been generated and shown
C16_Witness ==
    /\ Len(shown) = 1
    /\ shown[1].kind = "result"
    /\ Len(shown[1].text) > 0
    /\ state = Idle

\* the states that take the answer to a question and check it
FieldEntryStates ==
    {DisclaimerCreation.entering_start_date, DisclaimerCreation.entering_end_date,
     DisclaimerCreation.entering_max_discount,
     DisclaimerCreation.entering_discount_size,
     DisclaimerCreation.choosing_discount_unit,
     DisclaimerCreation.entering_min_amount,
     DisclaimerCreation.entering_max_discount_promo,
     DisclaimerCreation.entering_usage_count,
     MASS_ENTERING_START_DATE, MASS_ENTERING_END_DATE,
     MASS_ENTERING_MAX_DISCOUNT, MASS_ENTERING_DISCOUNT_SIZE,
     MASS_ENTERING_USAGE_COUNT}

\* the messages a handler answers with when the answer fails its check
CheckErrors ==
    LET dates == {strip(text) : text \in MassDateTexts \cup SingleDateTexts}
    IN  {validate_date(date).error : date \in dates}
        \cup {validate_dates_order(start, end).error : start, end \in dates}
        \cup {<<"enter a positive integer">>, <<"enter a positive number">>,
              <<"percentage above 100">>}

CheckFailed(replies) ==
    /\ Len(replies) = 1
    /\ replies[1].kind \in {"answer", "edit_text"}
    /\ replies[1].text \in CheckErrors \ {<<>>}

\* C17 as stated: a step that answers with the message of a failed check is
\* taken in a field-entry state and leaves the conversation in that state.
C17_FailedCheckKeepsState ==
    [][CheckFailed(shown') =>
          /\ state \in FieldEntryStates
          /\ state' = state]_vars

\* C17, amended: a failed check leaves the conversation in the state it was
\* made in, except the percentage above 100 found when the unit is chosen in
\* the single-city conversation, which returns the conversation to the entry
\* of the discount size.  No failed check advances the conversation.
C17_FailedCheckDoesNotAdvance ==
    [][CheckFailed(shown') =>
          /\ state \in FieldEntryStates
          /\ state' = IF state = DisclaimerCreation.choosing_discount_unit
                      THEN DisclaimerCreation.entering_discount_size
                      ELSE state]_vars

\* the percentage above 100 has been refused at the choice of the unit
C17_Witness ==
    /\ shown = Reply("edit_text", <<"percentage above 100">>)
    /\ state = DisclaimerCreation.entering_discount_size
    /\ "discount_unit" \in DOMAIN data
    /\ data["discount_unit"] = Some(PERCENT)

\* the fields validate_params requires of each creative type
RequiredFields(creative_type) ==
    CASE creative_type = DYNAMIC_NEWCOMER -> {"end_date"}
      [] creative_type = CLASSIC_NEWCOMER -> {"end_date", "max_discount_amount"}
      [] creative_type = PROMO_CODE ->
             {"end_date", "discount_size", "discount_unit"}
      [] creative_type = CERTIFICATE -> {"end_date", "usage_count"}
      [] creative_type = VENDOR -> {"start_date", "end_date"}
      [] OTHER -> {}

\* the field has been stored in the session with a value
Collected(d, key) == key \in DOMAIN d /\ d[key] # None

\* C18: a session in Confirming, in either mode, holds the creative type,
\* the channel, the city (a non-empty list of selected cities in batch
\* mode) and every field the gate requires of the creative type.
C18_ConfirmingHasRequiredFields ==
    state \in ConfirmingStates =>
        /\ {"creative_type", "channel"} \subseteq DOMAIN data
        /\ IF state = MASS_CONFIRMING
           THEN /\ "selected_cities" \in DOMAIN data
                /\ Len(data["selected_cities"]) > 0
           ELSE "city" \in DOMAIN data
        /\ \A key \in RequiredFields(data["creative_type"]) :
               Collected(data, key)

\* C19: the accept input taken in Confirming, in either mode, leaves the
\* session idle and without collected data, whether a disclaimer was
\* generated or the final validation refused the parameters.
C19_AcceptClearsSession ==
    [][(\/ state = DisclaimerCreation.confirming /\ generate_disclaimer
        \/ state = MASS_CONFIRMING /\ generate_mass_disclaimers)
       => (state' = Idle /\ data' = <<>>)]_vars

\* C20: in Confirming the edit input and the restart input have the same
\* effect on the session.  In the single-city conversation both leave it in
\* ChoosingType with no data; in the batch conversation both leave it in the
\* batch ChoosingType with nothing but an empty city selection.  Nothing
\* collected before is kept.
C20_EditSameAsRestart ==
    [][/\ (state = DisclaimerCreation.confirming
            /\ (edit_parameters \/ restart_creation))
          => (state' = DisclaimerCreation.choosing_type /\ data' = <<>>)
       /\ (state = MASS_CONFIRMING
            /\ (mass_edit_parameters \/ mass_restart_creation))
          => (/\ state' = MASS_CHOOSING_TYPE
              /\ DOMAIN data' = {"selected_cities"}
              /\ data'["selected_cities"] = <<>>)]_vars

\* the edit input has been taken in the single-city Confirming state
C20_Witness ==
    /\ shown = Reply("answer", <<"start again">>)
               \o Reply("answer", <<"choose type">>)
    /\ state = DisclaimerCreation.choosing_type
    /\ data = <<>>

\* a step of one of the three back handlers.  A type chosen again in
\* ChoosingType and a city chosen again in ChoosingGeography change the
\* session exactly as a back handler does; these two steps are left out.
BackStep ==
    /\ back_to_type \/ back_to_geography \/ back_to_channel
    /\ ~(/\ state = DisclaimerCreation.choosing_type
         /\ state' = DisclaimerCreation.choosing_geography)
    /\ ~(/\ state = DisclaimerCreation.choosing_geography
         /\ state' = DisclaimerCreation.choosing_channel)

\* C21: a back token changes the state only from ChoosingGeography, to
\* ChoosingType, and from ChoosingChannel, to ChoosingGeography; received in
\* a date or amount state, in Confirming, in the idle session or in a state
\* of the batch conversation it leaves the state as it is.
C21_BackOnlyFromGeographyAndChannel ==
    [][BackStep =>
          \/ state' = state
          \/ /\ state = DisclaimerCreation.choosing_geography
             /\ state' = DisclaimerCreation.choosing_type
          \/ /\ state = DisclaimerCreation.choosing_channel
             /\ state' = DisclaimerCreation.choosing_geography]_vars

\* C22: a selection input that no handler of the current state takes
\* resets the session: the state is idle and the collected data is gone,
\* whatever the token is.
C22_UnhandledCallbackResets ==
    [][handle_unhandled_callback => (state' = Idle /\ data' = <<>>)]_vars

\* the states that expect one of the tokens of a keyboard
ChoiceStates ==
    {DisclaimerCreation.choosing_type, DisclaimerCreation.choosing_geography,
     DisclaimerCreation.choosing_channel,
     DisclaimerCreation.choosing_delivery_info,
     DisclaimerCreation.choosing_discount_unit,
     DisclaimerCreation.choosing_first_order,
     DisclaimerCreation.choosing_category, DisclaimerCreation.confirming,
     MASS_CHOOSING_TYPE, MASS_CHOOSING_MULTIPLE_CITIES, MASS_CHOOSING_CHANNEL,
     MASS_CHOOSING_DISCOUNT_UNIT, MASS_CONFIRMING}

\* the tokens of the conversations' own keyboards that reset the session
\* when no handler of the current state takes them
ResetTokens ==
    {cb \in Callbacks :
        cb[1] \in {"type", "geo", "channel", "city_toggle", "cities",
                   "mass_type", "mass_channel", "mass_unit", "mass_confirm"}}

\* C23 as stated: in a state that expects a choice token, a text or a token
\* that no handler of the state takes leaves the state and the collected
\* data unchanged.
C23_UnrecognizedInputKeepsSession ==
    [][(state \in ChoiceStates /\ (handle_text \/ handle_unhandled_callback))
       => UNCHANGED <<state, data>>]_vars

\* C23, amended: in a state that expects a choice token, a free text leaves
\* the state and the collected data unchanged, and so does a token no
\* handler of the state takes, unless it is a type, geography, channel or
\* batch token: such a token resets the session to idle without data.
\* (A free text can be sent in every such state; the tokens are tried in
\* the state the text was sent in.)
C23_UnrecognizedInputKeepsOrResets ==
    [][(state \in ChoiceStates /\ handle_text) =>
          /\ UNCHANGED <<state, data>>
          /\ \A cb \in Callbacks :
                ~CallbackHandled(state, cb) =>
                    LET session == unhandled_session(state, data, cb)
                    IN  IF cb \in ResetTokens
                        THEN session.state = Idle /\ session.data = <<>>
                        ELSE session.state = state /\ session.data = data]_vars

\* a token of another state has been refused in a state that expects a
\* choice, with collected data in the session
C23_Witness ==
    /\ shown = Reply("alert", <<"unknown command">>)
    /\ state \in ChoiceStates
    /\ data # <<>>

\* the states of a conversation from the choice of the channel on
SingleFlowStates ==
    {DisclaimerCreation[name] : name \in DOMAIN DisclaimerCreation}
    \ {DisclaimerCreation.choosing_type, DisclaimerCreation.choosing_geography}

MassFlowStates ==
    {MASS_CHOOSING_CHANNEL, MASS_ENTERING_START_DATE, MASS_ENTERING_END_DATE,
     MASS_ENTERING_MAX_DISCOUNT, MASS_ENTERING_DISCOUNT_SIZE,
     MASS_CHOOSING_DISCOUNT_UNIT, MASS_ENTERING_USAGE_COUNT, MASS_CONFIRMING}

\* the single-city state a state of the batch conversation stands for
Mirror(st) ==
    CASE st = MASS_CHOOSING_CHANNEL -> DisclaimerCreation.choosing_channel
      [] st = MASS_ENTERING_START_DATE -> DisclaimerCreation.entering_start_date
      [] st = MASS_ENTERING_END_DATE -> DisclaimerCreation.entering_end_date
      [] st = MASS_ENTERING_MAX_DISCOUNT ->
             DisclaimerCreation.entering_max_discount
      [] st = MASS_ENTERING_DISCOUNT_SIZE ->
             DisclaimerCreation.entering_discount_size
      [] st = MASS_CHOOSING_DISCOUNT_UNIT ->
             DisclaimerCreation.choosing_discount_unit
      [] st = MASS_ENTERING_USAGE_COUNT ->
             DisclaimerCreation.entering_usage_count
      [] st = MASS_CONFIRMING -> DisclaimerCreation.confirming
      [] OTHER -> st

\* the states the single-city conversation of a creative type goes to from
\* the state st when the answer is taken
Suffix(creative_type, st) ==
    CASE st = DisclaimerCreation.choosing_channel ->
             IF creative_type \in {DYNAMIC_NEWCOMER, CLASSIC_NEWCOMER,
                                   PROMO_CODE, CERTIFICATE}
             THEN {DisclaimerCreation.entering_end_date}
             ELSE IF creative_type = VENDOR
             THEN {DisclaimerCreation.entering_start_date}
             ELSE {DisclaimerCreation.confirming}
      [] st = DisclaimerCreation.entering_start_date ->
             {DisclaimerCreation.entering_end_date}
      [] st = DisclaimerCreation.entering_end_date ->
             IF creative_type = CLASSIC_NEWCOMER
             THEN {DisclaimerCreation.entering_max_discount}
             ELSE IF creative_type = PROMO_CODE
             THEN {DisclaimerCreation.entering_discount_size}
             ELSE IF creative_type = CERTIFICATE
             THEN {DisclaimerCreation.entering_usage_count}
             ELSE IF creative_type \in {DYNAMIC_NEWCOMER, VENDOR}
             THEN {DisclaimerCreation.confirming}
             ELSE {}
      [] st = DisclaimerCreation.entering_max_discount ->
             {DisclaimerCreation.choosing_delivery_info}
      [] st = DisclaimerCreation.choosing_delivery_info ->
             {DisclaimerCreation.entering_delivery_text,
              DisclaimerCreation.confirming}
      [] st = DisclaimerCreation.entering_delivery_text ->
             {DisclaimerCreation.confirming}
      [] st = DisclaimerCreation.entering_discount_size ->
             {DisclaimerCreation.choosing_discount_unit}
      [] st = DisclaimerCreation.choosing_discount_unit ->
             {DisclaimerCreation.choosing_first_order,
              DisclaimerCreation.entering_discount_size}
      [] st = DisclaimerCreation.choosing_first_order ->
             {DisclaimerCreation.choosing_category}
      [] st = DisclaimerCreation.choosing_category ->
             {DisclaimerCreation.entering_category_name,
              DisclaimerCreation.entering_min_amount}
      [] st = DisclaimerCreation.entering_category_name ->
             {DisclaimerCreation.entering_min_amount}
      [] st = DisclaimerCreation.entering_min_amount ->
             {DisclaimerCreation.entering_max_discount_promo}
      [] st = DisclaimerCreation.entering_max_discount_promo ->
             {DisclaimerCreation.confirming}
      [] st = DisclaimerCreation.entering_usage_count ->
             {DisclaimerCreation.confirming}
      [] OTHER -> {}

\* a step of a conversation to another state after the choice of the channel
SingleForward ==
    /\ state \in SingleFlowStates
    /\ state' \in SingleFlowStates \ {DisclaimerCreation.choosing_channel}
    /\ state' # state

MassForward ==
    /\ state \in MassFlowStates
    /\ state' \in MassFlowStates \ {MASS_CHOOSING_CHANNEL}
    /\ state' # state

\* the answer stored when the state st (a single-city state, or the one a
\* batch state stands for) was left has passed the check of that state
EntryChecked(st, d) ==
    CASE st = DisclaimerCreation.entering_start_date ->
             validate_date(Val(d["start_date"])).ok
      [] st = DisclaimerCreation.entering_end_date ->
             /\ validate_date(Val(d["end_date"])).ok
             /\ d["creative_type"] = VENDOR =>
                    validate_dates_order(Val(d["start_date"]),
                                         Val(d["end_date"])).ok
      [] st = DisclaimerCreation.entering_max_discount ->
             /\ Val(d["max_discount_amount"]).t = "int"
             /\ Val(d["max_discount_amount"]).v > 0
      [] st = DisclaimerCreation.entering_discount_size ->
             ~num_le(Val(d["discount_size"]), 0)
      [] st = DisclaimerCreation.entering_usage_count ->
             /\ Val(d["usage_count"]).t = "int"
             /\ Val(d["usage_count"]).v > 0
      [] OTHER -> TRUE

\* C24 as stated: for each creative type the batch conversation goes, after
\* the choice of the channel, through the states the single-city
\* conversation goes through (so it asks for the delivery information of
\* ClassicNewcomer and the conditions of PromoCode, and refuses a percentage
\* above 100 at the choice of the unit).
C24_BatchMirrorsSingle ==
    [][/\ SingleForward => state' \in Suffix(data["creative_type"], state)
       /\ MassForward =>
             Mirror(state') \in Suffix(data["creative_type"], Mirror(state))]_vars

\* the states the batch conversation goes to: after the maximum discount of
\* ClassicNewcomer and after the unit of PromoCode it goes to Confirming
MassSuffix(creative_type, st) ==
    IF st \in {DisclaimerCreation.entering_max_discount,
               DisclaimerCreation.choosing_discount_unit}
    THEN {DisclaimerCreation.confirming}
    ELSE Suffix(creative_type, st)

\* C24, amended: the batch conversation goes through the same states as the
\* single-city conversation up to the maximum discount of ClassicNewcomer
\* and the unit of PromoCode, and from these to Confirming: it stores "no
\* delivery information" and "not first order only, no category, no minimum
\* amount, no maximum discount" without asking, and takes a percentage above
\* 100.  The dates and the numbers are checked alike in both conversations.
C24_BatchMirrorsSingleShortened ==
    [][/\ SingleForward =>
             /\ state' \in Suffix(data["creative_type"], state)
             /\ EntryChecked(state, data')
       /\ MassForward =>
             /\ Mirror(state') \in MassSuffix(data["creative_type"],
                                               Mirror(state))
             /\ EntryChecked(Mirror(state), data')
             /\ state = MASS_ENTERING_MAX_DISCOUNT =>
                    data'["add_delivery_info"] = FALSE
             /\ state = MASS_CHOOSING_DISCOUNT_UNIT =>
                    /\ data'["first_order_only"] = FALSE
                    /\ data'["specific_category"] = None
                    /\ data'["min_order_amount"] = None
                    /\ data'["max_promo_discount"] = None]_vars

\* a batch PromoCode conversation is in Confirming with a percentage above
\* 100 that the choice of the unit did not refuse
C24_Witness ==
    /\ state = MASS_CONFIRMING
    /\ data["creative_type"] = PROMO_CODE
    /\ data["discount_unit"] = Some(PERCENT)
    /\ num_gt(Val(data["discount_size"]), 100)

\* the cities selected in the session with the data d
SelectedIn(d) == get_default(d, "selected_cities", <<>>)

\* C25: in the batch conversation the "ready" input leaves the choice of the
\* cities for the choice of the channel only when a city is selected, and
\* leaves the state as it is otherwise; in every later state of the batch
\* conversation the selection is not empty, so the accept input in the
\* batch Confirming state finds at least one city.
C25_ReadyNeedsCity ==
    [][/\ mass_cities_ready =>
             state' = IF Len(SelectedIn(data)) = 0
                      THEN MASS_CHOOSING_MULTIPLE_CITIES
                      ELSE MASS_CHOOSING_CHANNEL
       /\ state' \in MassFlowStates => Len(SelectedIn(data')) > 0]_vars

\* the "ready" input has been refused with no city selected
C25_Witness ==
    /\ shown = Reply("alert", <<"mass: choose at least one city">>)
    /\ state = MASS_CHOOSING_MULTIPLE_CITIES
    /\ Len(SelectedIn(data)) = 0

\* C26: two inputs of one user are not handled interleaved, so when both
\* handlers have finished the session is the one that handling the inputs one
\* after the other, in one of the two orders, gives.
C26_SerialResult ==
    (\A i \in 1..2 : call.tasks[i].done) =>
        LET first == call.tasks[1].input
            second == call.tasks[2].input
        IN  Session(state, data)
                \in {handle(handle(call.session, first), second),
                     handle(handle(call.session, second), first)}


\* the session of the user u: the context when its update is handled, else
\* its record in the storage
SessionOf(u, c, st, d, sh) ==
    IF u = c.user THEN Record(st, d, sh) ELSE c.sessions[u]

ComparisonFailure == Fail(<<"Oshibka pri sravnenii dat">>)

\* C28: for two strings that validate_date accepts, validate_dates_order
\* does not return the generic comparison failure: it succeeds or fails with
\* the message about the order of the dates.
C28_AcceptedDatesCompare ==
    (/\ Called("validate_dates_order")
     /\ validate_date(call.args[1]).ok
     /\ validate_date(call.args[2]).ok)
        => call.ret # ComparisonFailure


\* ---------------------------------------------------------------------
\* The cities of a session (SpecBot)
\* ---------------------------------------------------------------------
\* C29: the city chosen in ChoosingGeography and the cities toggled in the
\* batch geography state are checked against the registry when they are
\* entered, so every city a session holds is a city of the registry.
C29_SessionCitiesInRegistry ==
    /\ "city" \in DOMAIN data => validate_city(data["city"]).ok
    /\ \A i \in 1..Len(SelectedCities) : validate_city(SelectedCities[i]).ok


\* ---------------------------------------------------------------------
\* The dates of Vendor, and Image and Product (SpecBot)
\* ---------------------------------------------------------------------
HoldsType(d, types) == "creative_type" \in DOMAIN d /\ d["creative_type"] \in types

StartDateStates == {DisclaimerCreation.entering_start_date, MASS_ENTERING_START_DATE}
EndDateStates == {DisclaimerCreation.entering_end_date, MASS_ENTERING_END_DATE}
ChannelStates == {DisclaimerCreation.choosing_channel, MASS_CHOOSING_CHANNEL}

DatesInOrder(d) ==
    /\ Collected(d, "start_date")
    /\ Collected(d, "end_date")
    /\ validate_dates_order(Val(d["start_date"]), Val(d["end_date"])).ok

PromoNext(st, d) ==
    CASE st = DisclaimerCreation.choosing_channel ->
             {DisclaimerCreation.entering_end_date}
      [] st = DisclaimerCreation.entering_end_date ->
             {DisclaimerCreation.entering_discount_size}
      [] st = DisclaimerCreation.entering_discount_size ->
             {DisclaimerCreation.choosing_discount_unit}
      [] st = DisclaimerCreation.choosing_discount_unit ->
             IF d["discount_unit"] = Some(PERCENT)
                /\ num_gt(Val(d["discount_size"]), 100)
             THEN {DisclaimerCreation.entering_discount_size}
             ELSE {DisclaimerCreation.choosing_first_order}
      [] st = DisclaimerCreation.choosing_first_order ->
             {DisclaimerCreation.choosing_category}
      [] st = DisclaimerCreation.choosing_category ->
             {DisclaimerCreation.entering_category_name,
              DisclaimerCreation.entering_min_amount}
      [] st = DisclaimerCreation.entering_category_name ->
             {DisclaimerCreation.entering_min_amount}
      [] st = DisclaimerCreation.entering_min_amount ->
             {DisclaimerCreation.entering_max_discount_promo}
      [] st = DisclaimerCreation.entering_max_discount_promo ->
             {DisclaimerCreation.confirming}
      [] OTHER -> {}

Overwrites(d1, d2, key) ==
    /\ DOMAIN d2 = DOMAIN d1 \cup {key}
    /\ \A other \in DOMAIN d1 \ {key} : d2[other] = d1[other]

C33_StartCommandsRestart ==
    [][/\ cmd_start => (state' = Idle /\ data' = <<>>)
       /\ cmd_create
          => (state' = DisclaimerCreation.choosing_type /\ data' = <<>>)
       /\ (cmd_mass_create
           \/ (state = DisclaimerCreation.entering_delivery_text
               /\ delivery_text(MASS_BUTTON)))
          => (state' = MASS_CHOOSING_TYPE /\ data' = mass_created)]_vars


\* ---------------------------------------------------------------------
\* The end date of Vendor can be entered (SpecMass)
\* ---------------------------------------------------------------------
\* the end dates tried: the dates of the conversation and the last day of
\* the year 9999, which is after every other date
D_31_12_9999 == <<"3", "1", ".", "1", "2", ".", "9", "9", "9", "9">>
EndDateCandidates == MassDateTexts \cup SingleDateTexts \cup {D_31_12_9999}

\* C34: no state of a conversation is a dead end; in particular a Vendor
\* conversation that waits for the end date can be completed by entering
\* some end date, whatever start date was accepted.
C34_EndDateCanBeEntered ==
    (/\ state \in EndDateStates
     /\ HoldsType(data, {VENDOR})
     /\ Collected(data, "start_date"))
        => \E end_date \in EndDateCandidates :
              /\ validate_date(strip(end_date)).ok
              /\ validate_dates_order(Val(data["start_date"]),
                                      strip(end_date)).ok


\* ---------------------------------------------------------------------
\* The data after a rejected answer (SpecBot)
\* ---------------------------------------------------------------------
\* C35: an answer that a field-entry state rejects (a malformed date, an
\* end date of Vendor that is not after the start date, a number that is
\* not positive, the percentage for a size above 100) leaves the collected
\* data as they were before it.
C35_RejectedAnswerKeepsData ==
    [][(state \in FieldEntryStates /\ CheckFailed(shown')) => data' = data]_vars


\* ---------------------------------------------------------------------
\* The entry checks and the gate (SpecMass)
\* ---------------------------------------------------------------------
\* the cities a session in Confirming generates for
ConfirmedCities ==
    IF state = MASS_CONFIRMING THEN SelectedCities
    ELSE IF "city" \in DOMAIN data THEN <<data["city"]>>
    ELSE <<>>

\* C36: the checks made when the fields are entered are as strong as the
\* gate: a session that reached Confirming with cities of the keyboard holds
\* a parameter set that passes validate_params for every selected city.
C36_ConfirmingPassesGate ==
    (/\ state \in ConfirmingStates
     /\ {"creative_type", "channel"} \subseteq DOMAIN data
     /\ \A i \in 1..Len(ConfirmedCities) : validate_city(ConfirmedCities[i]).ok)
        => \A i \in 1..Len(ConfirmedCities) :
              validate_params(mass_params(data, ConfirmedCities[i])).ok


\* ---------------------------------------------------------------------
\* The list of selected cities (SpecMass)
\* ---------------------------------------------------------------------
NoCityTwice(selected) ==
    \A i, j \in 1..Len(selected) : selected[i] = selected[j] => i = j

CitySet(selected) == {selected[i] : i \in 1..Len(selected)}

\* a step of toggle_city_selection changes the list as the toggle of one
\* city does, and neither the state nor another field
ToggleStep ==
    /\ state' = state
    /\ Overwrites(data, data', "selected_cities")
    /\ \E city \in MassCityTokens :
          SelectedIn(data') = toggled(SelectedIn(data), city)
    /\ NoCityTwice(SelectedIn(data'))

\* C37 as stated: the list of selected cities holds no city twice; the
\* toggle of an unselected city appends it, the toggle of a selected city
\* removes it, two toggles of one city in a row restore the list exactly,
\* and the toggle changes neither the state nor another field.
C37_ToggleTwiceRestoresList ==
    [][toggle_city_selection =>
          /\ ToggleStep
          /\ \A city \in MassCityTokens :
                toggled(toggled(SelectedIn(data), city), city)
                    = SelectedIn(data)]_vars

\* C37, amended: two toggles of one city in a row restore the set of
\* selected cities, and the list exactly when the city was not selected;
\* a selected city comes back at the end of the list.
C37_ToggleTwiceRestoresSet ==
    [][toggle_city_selection =>
          /\ ToggleStep
          /\ \A city \in MassCityTokens :
                LET selected == SelectedIn(data)
                    twice == toggled(toggled(selected, city), city)
                IN  /\ CitySet(twice) = CitySet(selected)
                    /\ NoCityTwice(twice)
                    /\ twice = IF In(city, selected)
                               THEN Append(remove(selected, city), city)
                               ELSE selected]_vars

\* two cities have been toggled: toggling the first of them twice puts it
\* behind the second
C37_Witness ==
    /\ state = MASS_CHOOSING_MULTIPLE_CITIES
    /\ SelectedCities = <<<<"tula">>, <<"moskva">>>>
    /\ HoldsType(data, {PROMO_CODE})


\* ---------------------------------------------------------------------
\* The optional amounts of PromoCode after /skip (SpecSkip)
\* ---------------------------------------------------------------------
\* C38: an optional amount of PromoCode that was answered with /skip is
\* not part of the parameters of the disclaimer: after /skip in
\* EnteringMinAmount the session holds no minimum amount, after /skip in
\* EnteringMaxDiscountPromo no maximum discount, whatever was entered
\* earlier in the conversation.
C38_SkippedAmountAbsent ==
    [][/\ skip_min_amount => ~Collected(data', "min_order_amount")
       /\ skip_max_discount_promo
          => /\ ~Collected(data', "max_promo_discount")
             /\ mass_params(data', data'["city"]).max_promo_discount = None]_vars


\* ---------------------------------------------------------------------
\* The selections a state presupposes (SpecBot)
\* ---------------------------------------------------------------------
AfterTypeStates ==
    ({DisclaimerCreation[name] : name \in DOMAIN DisclaimerCreation}
        \ {DisclaimerCreation.choosing_type})
    \cup {MASS_CHOOSING_MULTIPLE_CITIES} \cup MassFlowStates

AfterChannelStates ==
    (SingleFlowStates \ {DisclaimerCreation.choosing_channel})
    \cup (MassFlowStates \ {MASS_CHOOSING_CHANNEL})

\* C39: whatever the inputs were, tokens of old prompts included, a session
\* in a state after ChoosingType holds a creative type, a session in a state
\* after ChoosingChannel holds a channel and a city (a non-empty list of
\* cities in the batch conversation), and no handler fails on a missing one.
C39_SessionHoldsSelections ==
    /\ state \in AfterTypeStates => HoldsType(data, CreativeType)
    /\ state \in AfterChannelStates =>
          /\ "channel" \in DOMAIN data
          /\ IF state \in MassFlowStates THEN Len(SelectedCities) > 0
             ELSE "city" \in DOMAIN data
    /\ shown # Reply("raised", <<"KeyError">>)

====
